---------------------------- MODULE Spec2Model ----------------------------
(***************************************************************************)
(* The phpcs language server (ikappas/vscode-phpcs): the validation        *)
(* orchestration of PhpcsServer in two revisions,                          *)
(*   "server"     : src/phpcs-server/src/server.ts                         *)
(*   "tryfinally" : src/unnamed/part_005 (validateSingle with try/finally) *)
(* together with the promises it awaits (workspace/configuration request,  *)
(* PhpcsLinter.create, PhpcsLinter.lint) and the pure helper               *)
(* getExceptionMessage.                                                    *)
(*                                                                         *)
(* One step of the model is one turn of the node event loop: the           *)
(* synchronous part of a handler followed by every continuation whose      *)
(* awaited promise is already settled (the microtask queue is drained      *)
(* before the next event is read).                                         *)
(***************************************************************************)
EXTENDS Integers, Sequences, FiniteSets, TLC

VARIABLES
    rev,                \* which revision of PhpcsServer runs
    hasConfigurationCapability,
    globalSettings,     \* "undef" | "on" | "off" : globalSettings.enable
    open,               \* documents.all(): open URIs in insertion order
    validating,         \* keys of the validating map
    documentSettings,   \* URI -> promise id (0 = no entry)
    promises,           \* promise id -> state of a getConfiguration promise
    tasks,              \* slot -> one running call chain of validateSingle
    out,                \* what the last step did, in order: messages to
                        \* the client, subprocesses started, branches taken
    events,             \* editor events delivered so far
    msgIn,              \* input of getExceptionMessage
    msgOut,             \* its result
    lintIn,             \* document, settings and tool version given to lint
    lintRun,            \* one validation's use of PhpcsLinter: create, lint
    closeIn,            \* what phpcs has written when it closes
    closeOut,           \* how the close handler settles the lint promise
    diagIn,             \* a line of text and a 1-based column
    diagOut,            \* the range makeDiagnostic gives it
    resIn,              \* settings and file system given to the resolvers
    resOut,             \* the executable path found, or the failure
    edit,               \* one document edited while its validations run
    queueing,           \* the queueing revision's validation of one URI
    status,             \* the client's PhpcsStatus, its timer and its item
    fullText            \* a FullTextDocument's text and an offset into it

srvVars == <<rev, hasConfigurationCapability, globalSettings, open, validating,
             documentSettings, promises, tasks, out, events>>
msgVars == <<msgIn, msgOut>>
lintVars == <<lintIn, lintRun>>
closeVars == <<closeIn, closeOut>>
diagVars == <<diagIn, diagOut>>
resVars == <<resIn, resOut>>
extVars == <<edit, queueing, status, fullText>>
fnVars == <<msgVars, lintVars, closeVars, diagVars, resVars, extVars>>
vars == <<srvVars, fnVars>>

---------------------------------------------------------------------------
(* Bounds *)

\* concurrent call chains of validateSingle / validateMany
MaxTasks == 2
\* editor events delivered in one run
MaxEvents == 3
\* longest message body given to getExceptionMessage
MaxMsgLen == 3

URIS == {"a", "b"}
Revisions == {"server", "tryfinally"}
Slots == 1..MaxTasks
\* a promise is referenced by a cache entry or by an awaiting task
PromiseIds == 1..(Cardinality(URIS) + MaxTasks)

NoDiagnostics == <<>>
\* what a successful lint can resolve with
LintResults == {<<>>, <<"E1">>}

IdleTask == [pc |-> "idle", uri |-> "a", rest |-> <<>>, cfg |-> 0,
             val |-> "undef"]

---------------------------------------------------------------------------
(* Effects *)

Eff(k, u, d) == [k |-> k, u |-> u, d |-> d]
Start(u) == Eff("start", u, <<>>)
End(u) == Eff("end", u, <<>>)
Diag(u, d) == Eff("diag", u, d)
ErrorMsg(u) == Eff("error", u, <<>>)
ConfigReq(u) == Eff("config", u, <<>>)
Probe(u) == Eff("probe", u, <<>>)
Spawn(u) == Eff("spawn", u, <<>>)
\* what happened besides: a document validateMany never reached, a
\* validation that found enable = false, the callback of the --version
\* subprocess, a settings-changed notification handled, a phpcs process
\* alive after forcedKillTime
Dropped(u) == Eff("dropped", u, <<>>)
Disabled(u) == Eff("disabled", u, <<>>)
Probed(u, o) == Eff("probed", u, <<o>>)
SettingsChanged == Eff("settings-changed", "a", <<>>)
Overdue(u) == Eff("overdue", u, <<>>)

Has(k, u) == \E i \in DOMAIN out : out[i].k = k /\ out[i].u = u
HasKind(k) == \E i \in DOMAIN out : out[i].k = k


---------------------------------------------------------------------------
(* The server state a handler reads and writes, as one record.  Slot 0 is  *)
(* the call being made by the handler that runs now; a call that has to    *)
(* wait moves to a free slot of Slots.                                     *)

AllSlots == 0..MaxTasks

St == [val |-> validating, ds |-> documentSettings, pr |-> promises,
       tk |-> tasks, gs |-> globalSettings,
       out |-> <<>>, ok |-> TRUE]

Emit(s, e) == [s EXCEPT !.out = Append(@, e)]

Min(S) == CHOOSE x \in S : \A y \in S : x <= y

RECURSIVE EmitDropped(_, _)
EmitDropped(s, docs) ==
    IF docs = <<>> THEN s
    ELSE EmitDropped(Emit(s, Dropped(Head(docs))), Tail(docs))

---------------------------------------------------------------------------
(* PhpcsServer *)

\* validateSingle: if (this.validating.has(uri) === false)
GuardPasses(val, u) == u \notin val

\* this.validating.set(uri, document)
MarkValidating(val, u) == val \cup {u}

\* this.validating.clear() in the place of delete(uri)
ClearValidating(val, u) == {}

\* this.validating.delete(uri)
UnmarkValidating(val, u) == val \ {u}

\* getDocumentSettings: the promise validateSingle awaits (0: an already
\* resolved promise of globalSettings), and the state after the call
\* getDocumentSettings without the lookup in documentSettings
getDocumentSettingsUncached(s, u) ==
    IF hasConfigurationCapability
    THEN LET free == {q \in PromiseIds : s.pr[q] = "free"}
             p == IF free = {} THEN 1 ELSE Min(free)
         IN  [s |-> Emit([s EXCEPT !.pr[p] = "pending", !.ds[u] = p,
                                   !.ok = @ /\ free # {}],
                         ConfigReq(u)),
              p |-> p]
    ELSE [s |-> s, p |-> 0]

getDocumentSettings(s, u) ==
    IF hasConfigurationCapability
    THEN IF s.ds[u] # 0
         THEN [s |-> s, p |-> s.ds[u]]
         ELSE LET free == {q \in PromiseIds : s.pr[q] = "free"}
                  p == IF free = {} THEN 1 ELSE Min(free)
              IN  [s |-> Emit([s EXCEPT !.pr[p] = "pending", !.ds[u] = p,
                                        !.ok = @ /\ free # {}],
                              ConfigReq(u)),
                   p |-> p]
    ELSE [s |-> s, p |-> 0]

\* sendStartValidationNotification
sendStartValidationNotification(s, u) ==
    IF rev = "server"
    THEN Emit([s EXCEPT !.val = MarkValidating(@, u)], Start(u))
    ELSE Emit(s, Start(u))

\* sendEndValidationNotification
sendEndValidationNotification(s, u) ==
    IF rev = "server"
    THEN Emit([s EXCEPT !.val = UnmarkValidating(@, u)], End(u))
    ELSE Emit(s, End(u))

\* sendDiagnostics
sendDiagnostics(s, u, d) == Emit(s, Diag(u, d))

\* safeEventHandler: a rejection of the handler's promise becomes an error
\* message; the documents validateMany had not reached are never validated
safeEventHandler(s, t) ==
    [EmitDropped(Emit(s, ErrorMsg(s.tk[t].uri)), s.tk[t].rest)
        EXCEPT !.tk[t] = IdleTask]

RECURSIVE validateSingle(_, _, _, _)
RECURSIVE validateMany(_, _, _)

\* validateSingle up to its first await, for document u, called by slot t
\* with the documents `rest` still to do after it
validateSingle(s, t, u, rest) ==
    IF ~GuardPasses(s.val, u)
    THEN validateMany(s, t, rest)
    ELSE LET s1 == IF rev = "tryfinally"
                   THEN [s EXCEPT !.val = MarkValidating(@, u)]
                   ELSE s
             g == getDocumentSettings(s1, u)
         IN  [g.s EXCEPT !.tk[t] =
                 [pc |-> "settings", uri |-> u, rest |-> rest, cfg |-> g.p,
                  val |-> IF g.p = 0 THEN s.gs ELSE "undef"]]

\* validateMany: for (...) await this.validateSingle(documents[i])
validateMany(s, t, docs) ==
    IF docs = <<>>
    THEN [s EXCEPT !.tk[t] = IdleTask]
    ELSE validateSingle(s, t, Head(docs), Tail(docs))

\* what the awaited settings promise of slot t is settled with ("pending"
\* while it is not)
SettingsOf(s, t) ==
    IF s.tk[t].cfg = 0 THEN s.tk[t].val ELSE s.pr[s.tk[t].cfg]

\* validateSingle from `settings = await ...` to `await PhpcsLinter.create`
afterSettings(s, t) ==
    LET u == s.tk[t].uri
        v == SettingsOf(s, t)
    IN  CASE v \in {"rejected", "undef"} -> safeEventHandler(s, t)
          [] v = "off" ->
                validateMany(Emit(IF rev = "tryfinally"
                                  THEN [s EXCEPT !.val = UnmarkValidating(@, u)]
                                  ELSE s,
                                  Disabled(u)),
                             t, s.tk[t].rest)
          [] v = "on" ->
                [Emit(sendStartValidationNotification(s, u), Probe(u))
                    EXCEPT !.tk[t].pc = "create"]

\* the continuations whose promise is settled run before the next event
RECURSIVE Drain(_)
Drain(s) ==
    LET ready == {t \in Slots : /\ s.tk[t].pc = "settings"
                                /\ SettingsOf(s, t) # "pending"}
    IN  IF ready = {} THEN s ELSE Drain(afterSettings(s, Min(ready)))

\* a promise nothing refers to any more is gone
Collect(s) ==
    [s EXCEPT !.pr = [p \in PromiseIds |->
        IF \/ \E u \in URIS : s.ds[u] = p
           \/ \E t \in Slots : s.tk[t].pc = "settings" /\ s.tk[t].cfg = p
        THEN s.pr[p] ELSE "free"]]

(* Slot numbers and promise ids carry no meaning: after each step the     *)
(* running calls are put in one fixed order and the promises renumbered   *)
(* in the order they are referred to.                                     *)
Idx(seq, x) == CHOOSE i \in DOMAIN seq : seq[i] = x

PcKey(pc) ==
    CASE pc = "idle" -> 0 [] pc = "settings" -> 1 [] pc = "create" -> 2
      [] pc = "lint" -> 3

TaskKey(k) ==
    (((PcKey(k.pc) * 2 + (IF k.uri = "a" THEN 0 ELSE 1)) * 3
        + (IF k.rest = <<>> THEN 0 ELSE IF k.rest[1] = "a" THEN 1 ELSE 2)) * 3
        + (CASE k.val = "undef" -> 0 [] k.val = "on" -> 1 [] k.val = "off" -> 2))
        * 8 + k.cfg

\* a call that no longer awaits its settings has forgotten the promise
Forget(k) ==
    IF k.pc = "settings" THEN k ELSE [k EXCEPT !.cfg = 0, !.val = "undef"]

RECURSIVE InsertTask(_, _, _)
InsertTask(k, key, sorted) ==
    IF sorted = <<>> THEN <<k>>
    ELSE IF key >= TaskKey(Head(sorted)) THEN <<k>> \o sorted
    ELSE <<Head(sorted)>> \o InsertTask(k, key, Tail(sorted))

RECURSIVE SortTasks(_, _)
SortTasks(tk, n) ==
    IF n = 0 THEN <<>>
    ELSE InsertTask(Forget(tk[n]), TaskKey(Forget(tk[n])),
                    SortTasks(tk, n - 1))

RECURSIVE FirstRefs(_, _)
\* the promise ids of `refs`, each once, in the order of first reference
FirstRefs(refs, seen) ==
    IF refs = <<>> THEN seen
    ELSE IF Head(refs) = 0 \/ \E i \in DOMAIN seen : seen[i] = Head(refs)
    THEN FirstRefs(Tail(refs), seen)
    ELSE FirstRefs(Tail(refs), Append(seen, Head(refs)))

Renumber(s, sorted, order) ==
    LET new(p) == IF p = 0 THEN 0 ELSE Idx(order, p)
    IN  [s EXCEPT
            !.tk = [t \in AllSlots |->
                        IF t = 0 THEN IdleTask
                        ELSE [sorted[t] EXCEPT !.cfg = new(@)]],
            !.ds = [u \in URIS |-> new(s.ds[u])],
            !.pr = [p \in PromiseIds |->
                        IF p \in DOMAIN order THEN s.pr[order[p]]
                        ELSE "free"]]

Reorder(s, sorted) ==
    CHOOSE r \in {Renumber(s, sorted, order) :
                    order \in {FirstRefs(<<s.ds["a"], s.ds["b"]>>
                                   \o [t \in Slots |-> sorted[t].cfg], <<>>)}} :
        TRUE

Canon(s) ==
    CHOOSE r \in {Reorder(s, sorted) :
                    sorted \in {SortTasks(s.tk, MaxTasks)}} : TRUE

\* a handler calls validateMany(docs): the call runs in slot 0 and, when it
\* has to wait, takes the lowest free slot
Call(s, docs) ==
    LET r == validateMany(s, 0, docs)
        free == {t \in Slots : r.tk[t].pc = "idle"}
    IN  IF r.tk[0].pc = "idle" THEN r
        ELSE IF free = {} THEN [r EXCEPT !.ok = FALSE]
        ELSE [r EXCEPT !.tk[Min(free)] = r.tk[0], !.tk[0] = IdleTask]

Commit(s0) ==
    \E s \in {Canon(Collect(Drain(s0)))} :
        /\ s.ok
        /\ validating' = s.val
        /\ documentSettings' = s.ds
        /\ promises' = s.pr
        /\ tasks' = s.tk
        /\ globalSettings' = s.gs
        /\ out' = s.out
        /\ UNCHANGED <<rev, hasConfigurationCapability, fnVars>>

\* an editor event is delivered
Deliver == events < MaxEvents /\ events' = events + 1

Remove(seq, u) == SelectSeq(seq, LAMBDA x : x # u)


---------------------------------------------------------------------------
(* PhpcsLinter, seen from the server *)

\* PhpcsLinter.create: how `cp.exec(command --version)` calls back.
\*   "ok"      no error, stdout holds a version : resolve(linter)
\*   "error"   error set                         : reject(...)
\*   "nomatch" no error, no version in stdout    : versionMatches[1] throws
\*             inside the callback, the promise is never settled
ProbeOutcomes == {"ok", "error", "nomatch"}

\* validateSingle after `await PhpcsLinter.create(...)` has thrown
createRejected(s, t) ==
    LET u == s.tk[t].uri
    IN  IF rev = "server"
        THEN safeEventHandler(s, t)
        ELSE safeEventHandler(
                sendDiagnostics(
                    sendEndValidationNotification(
                        [s EXCEPT !.val = UnmarkValidating(@, u)], u),
                    u, NoDiagnostics),
                t)

\* validateSingle after `await phpcs.lint(...)` has thrown
lintRejected(s, t) ==
    LET u == s.tk[t].uri
    IN  IF rev = "server"
        THEN safeEventHandler(sendEndValidationNotification(s, u), t)
        ELSE safeEventHandler(
                sendDiagnostics(
                    sendEndValidationNotification(
                        [s EXCEPT !.val = UnmarkValidating(@, u)], u),
                    u, NoDiagnostics),
                t)

\* a validateSingle that publishes before it sends validation-ended
lintResolvedPublishFirst(s, t, d) ==
    LET u == s.tk[t].uri
    IN  validateMany(
            sendEndValidationNotification(sendDiagnostics(s, u, d), u),
            t, s.tk[t].rest)

\* validateSingle after `await phpcs.lint(...)` has resolved with d
lintResolved(s, t, d) ==
    LET u == s.tk[t].uri
        s1 == IF rev = "server" THEN s
              ELSE [s EXCEPT !.val = UnmarkValidating(@, u)]
    IN  validateMany(
            sendDiagnostics(sendEndValidationNotification(s1, u), u, d),
            t, s.tk[t].rest)

\* lint: cs.spawn(executablePath, lintArgs, options)
spawnPhpcs(s, t) ==
    [Emit(s, Spawn(s.tk[t].uri)) EXCEPT !.tk[t].pc = "lint"]

\* a create that resolves whatever the --version subprocess said
createAlwaysResolves(s, t, o) == spawnPhpcs(s, t)

\* validateSingle at `await PhpcsLinter.create(...)`, the --version
\* subprocess calling back with outcome o
create(s, t, o) ==
    CASE o = "ok" -> spawnPhpcs(s, t)
      [] o = "error" -> createRejected(s, t)
      [] o = "nomatch" -> [s EXCEPT !.tk[t] = IdleTask]

---------------------------------------------------------------------------
(* Initial state *)

ServerInit ==
    /\ rev \in Revisions
    /\ hasConfigurationCapability \in BOOLEAN
    /\ globalSettings = "undef"
    /\ open = <<>>
    /\ validating = {}
    /\ documentSettings = [u \in URIS |-> 0]
    /\ promises = [p \in PromiseIds |-> "free"]
    /\ tasks = [t \in AllSlots |-> IdleTask]
    /\ out = <<>>
    /\ events = 0

NoException == [isString |-> FALSE, text |-> <<>>]
NoMessage == [done |-> FALSE, text |-> <<>>]

NotCalled == [pc |-> "idle"]

ExtIdle ==
    /\ edit = NotCalled /\ queueing = NotCalled
    /\ status = NotCalled /\ fullText = NotCalled

LintIdle ==
    /\ lintIn = NotCalled /\ lintRun = NotCalled
    /\ closeIn = NotCalled /\ closeOut = NotCalled
    /\ diagIn = NotCalled /\ diagOut = NotCalled
    /\ resIn = NotCalled /\ resOut = NotCalled
    /\ ExtIdle

MsgIdle == msgIn = NoException /\ msgOut = NoMessage

FnIdle == MsgIdle /\ LintIdle

Init == ServerInit /\ FnIdle

---------------------------------------------------------------------------
(* Events of the editor *)

\* documents.listen, onDidOpenTextDocument: the open handler, then the
\* content-changed handler, in the same turn
DidOpen(u) ==
    /\ Deliver
    /\ u \notin {open[i] : i \in DOMAIN open}
    /\ open' = Append(open, u)
    /\ Commit(Call(Call(St, <<u>>), <<u>>))

DidChangeContent(u) ==
    /\ Deliver
    /\ u \in {open[i] : i \in DOMAIN open}
    /\ UNCHANGED open
    /\ Commit(Call(St, <<u>>))

DidSave(u) ==
    /\ Deliver
    /\ u \in {open[i] : i \in DOMAIN open}
    /\ UNCHANGED open
    /\ Commit(Call(St, <<u>>))

\* onDidCloseDocument
DidClose(u) ==
    /\ Deliver
    /\ u \in {open[i] : i \in DOMAIN open}
    /\ open' = Remove(open, u)
    /\ Commit(sendDiagnostics(
                [St EXCEPT !.ds[u] = 0, !.val = UnmarkValidating(@, u)],
                u, NoDiagnostics))

\* onDidChangeConfiguration, the new settings having enable = e
DidChangeConfiguration(e) ==
    /\ Deliver
    /\ UNCHANGED open
    /\ Commit(Call(
         Emit(IF hasConfigurationCapability
              THEN Collect([St EXCEPT !.ds = [u \in URIS |-> 0]])
              ELSE [St EXCEPT !.gs = e],
              SettingsChanged),
         open))

\* onDidChangeWatchedFiles
DidChangeWatchedFiles ==
    /\ Deliver
    /\ UNCHANGED open
    /\ Commit(Call(St, open))

---------------------------------------------------------------------------
(* Promises settling *)

\* the client answers a workspace/configuration request
ConfigurationResponse(p, v) ==
    /\ promises[p] = "pending"
    /\ UNCHANGED <<open, events>>
    /\ Commit([St EXCEPT !.pr[p] = v])

\* the `--version` subprocess of PhpcsLinter.create calls back
CreateSettles(t, o) ==
    /\ tasks[t].pc = "create"
    /\ UNCHANGED <<open, events>>
    /\ Commit(create(Emit(St, Probed(tasks[t].uri, o)), t, o))

\* the phpcs subprocess closes and the report parses: resolve(diagnostics)
LintResolves(t, d) ==
    /\ tasks[t].pc = "lint"
    /\ UNCHANGED <<open, events>>
    /\ Commit(lintResolved(St, t, d))

\* the phpcs subprocess closes and the close handler rejects
LintRejects(t) ==
    /\ tasks[t].pc = "lint"
    /\ UNCHANGED <<open, events>>
    /\ Commit(lintRejected(St, t))

\* forcedKillTime (five minutes) passes while phpcs is still running:
\* `timeout` is no option of spawn in typings/cross-spawn.d.ts, and it
\* depends on the runtime whether child_process.spawn kills the process.
\* A killed process closes with an incomplete report and lint rejects;
\* otherwise the process runs on and the lint promise stays pending.
ForcedKillTimeElapses(t, honoured) ==
    /\ tasks[t].pc = "lint"
    /\ UNCHANGED <<open, events>>
    /\ Commit(IF honoured
              THEN lintRejected(St, t)
              ELSE Emit(St, Overdue(tasks[t].uri)))

ServerNext ==
    \/ \E u \in URIS : DidOpen(u)
    \/ \E u \in URIS : DidChangeContent(u)
    \/ \E u \in URIS : DidSave(u)
    \/ \E u \in URIS : DidClose(u)
    \/ \E e \in {"on", "off"} : DidChangeConfiguration(e)
    \/ DidChangeWatchedFiles
    \/ \E p \in PromiseIds, v \in {"on", "off", "rejected"} :
            ConfigurationResponse(p, v)
    \/ \E t \in Slots, o \in ProbeOutcomes : CreateSettles(t, o)
    \/ \E t \in Slots, d \in LintResults : LintResolves(t, d)
    \/ \E t \in Slots : LintRejects(t)
    \/ \E t \in Slots, h \in BOOLEAN : ForcedKillTimeElapses(t, h)

Next == ServerNext

Spec == Init /\ [][Next]_vars

\* src/phpcs-server/src/server.ts alone
InitServer == Init /\ rev = "server"

SpecServer == InitServer /\ [][Next]_vars

---------------------------------------------------------------------------
(* getExceptionMessage.  A string is the sequence of its characters; "LF"  *)
(* and "CR" stand for the line feed and the carriage return.               *)

Chars == {"x", " ", "LF", "CR"}

ErrorPrefix == <<"E", "R", "R", "O", "R", ":", " ">>

\* message.substr(5)
SubstrStart == 5

UnknownErrorWhileValidatingTextDocument ==
    <<"An unknown error occurred while validating: {0}">>

RECURSIVE ReplaceLineBreaks(_)
\* message.replace(/\r?\n/g, ' ')
ReplaceLineBreaks(m) ==
    IF m = <<>> THEN <<>>
    ELSE IF Len(m) >= 2 /\ m[1] = "CR" /\ m[2] = "LF"
    THEN <<" ">> \o ReplaceLineBreaks(SubSeq(m, 3, Len(m)))
    ELSE IF m[1] = "LF"
    THEN <<" ">> \o ReplaceLineBreaks(Tail(m))
    ELSE <<m[1]>> \o ReplaceLineBreaks(Tail(m))

\* /^ERROR: /.test(message)
StartsWithErrorPrefix(m) ==
    /\ Len(m) >= Len(ErrorPrefix)
    /\ SubSeq(m, 1, Len(ErrorPrefix)) = ErrorPrefix

\* String.prototype.substr(start), start within the string
Substr(m, start) == SubSeq(m, start + 1, Len(m))

getExceptionMessage(exception) ==
    IF exception.isString
    THEN LET message == ReplaceLineBreaks(exception.text)
         IN  IF StartsWithErrorPrefix(message)
             THEN Substr(message, SubstrStart)
             ELSE message
    ELSE UnknownErrorWhileValidatingTextDocument

RECURSIVE Texts(_)
\* the strings over Chars of length n
Texts(n) ==
    IF n = 0 THEN {<<>>}
    ELSE {<<c>> \o m : c \in Chars, m \in Texts(n - 1)}

\* the exceptions lint can reject with: a message with or without the
\* prefix (whole, or cut before its blank), or no string message at all
Exceptions ==
    {[isString |-> TRUE, text |-> p \o m] :
        p \in {<<>>, ErrorPrefix, SubSeq(ErrorPrefix, 1, 6)},
        m \in UNION {Texts(n) : n \in 0..MaxMsgLen}}
    \cup {NoException}

InitFn ==
    /\ ServerInit
    /\ rev = "server"
    /\ ~hasConfigurationCapability
    /\ msgIn \in Exceptions
    /\ msgOut = NoMessage
    /\ LintIdle

\* lint rejects with msgIn and validateSingle builds the error to show
GetExceptionMessage ==
    /\ ~msgOut.done
    /\ msgOut' = [done |-> TRUE, text |-> getExceptionMessage(msgIn)]
    /\ UNCHANGED <<srvVars, msgIn, lintVars, closeVars, diagVars, resVars, extVars>>

NextFn == GetExceptionMessage

SpecFn == InitFn /\ [][NextFn]_vars

---------------------------------------------------------------------------
(* PhpcsLinter.lint up to the spawn of phpcs.  A command-line argument is  *)
(* the sequence of the pieces it is concatenated from, and so is the text  *)
(* written to stdin.                                                       *)

\* largest major, minor and patch number of the tool versions tried
MaxMajor == 3
MaxMinor == 6
MaxPatch == 2

Versions == (0..MaxMajor) \X (0..MaxMinor) \X (0..MaxPatch)

Undefined == "undefined"
Null == "null"

\* Files.uriToFilePath(document.uri)
FilePaths == {Undefined, "/w/a.php"}
\* document.getText()
FileTexts == {"", "<?php"}
\* os.EOL
EOL == "EOL"

\* settings.ignorePatterns: null, or a list of glob patterns
NullPatterns == [null |-> TRUE, items |-> <<>>]
IgnorePatternLists ==
    {NullPatterns} \cup
    {[null |-> FALSE, items |-> l] :
        l \in {<<>>, <<"**/vendor/**">>, <<"**/a.php">>,
               <<"**/vendor/**", "**/a.php">>}}

\* minimatch(filePath, pattern) for the paths and patterns above
minimatch(filePath, pattern) == filePath = "/w/a.php" /\ pattern = "**/a.php"

Settings ==
    [showSources : BOOLEAN,
     standard : {Null, "PSR2"},
     ignorePatterns : IgnorePatternLists,
     errorSeverity : {"5"},
     warningSeverity : {"0", "5"},
     showWarnings : BOOLEAN]

\* a strict comparison in the place of semver.gte
semverGt(v, g) ==
    \/ v[1] > g[1]
    \/ v[1] = g[1] /\ v[2] > g[2]
    \/ v[1] = g[1] /\ v[2] = g[2] /\ v[3] > g[3]

\* semver.gte(this.executableVersion, g)
semverGte(v, g) ==
    \/ v[1] > g[1]
    \/ v[1] = g[1] /\ v[2] > g[2]
    \/ v[1] = g[1] /\ v[2] = g[2] /\ v[3] >= g[3]

\* semver.satisfies(this.executableVersion, '>=lo <hi')
semverSatisfies(v, lo, hi) == semverGte(v, lo) /\ ~semverGte(v, hi)

QuietGate == <<2, 6, 2>>
EncodingGate == <<1, 3, 0>>
IgnoreGate == <<3, 0, 0>>
StdinPathGate == <<2, 6, 0>>
PreambleGate == <<2, 0, 0>>

RECURSIVE join(_)
\* settings.ignorePatterns.join(',')
join(patterns) ==
    IF patterns = <<>> THEN <<>>
    ELSE IF Len(patterns) = 1 THEN <<patterns[1]>>
    ELSE <<patterns[1], ",">> \o join(Tail(patterns))

\* settings.ignorePatterns !== null && settings.ignorePatterns.length
HasIgnorePatterns(settings) ==
    ~settings.ignorePatterns.null /\ Len(settings.ignorePatterns.items) > 0

\* settings.ignorePatterns.some(pattern => minimatch(filePath, pattern))
SomePatternMatches(filePath, settings) ==
    \E i \in DOMAIN settings.ignorePatterns.items :
        minimatch(filePath, settings.ignorePatterns.items[i])

\* the second `return resolve([])` of lint: the file is ignored locally
IgnoredLocally(filePath, settings, v) ==
    /\ filePath # Undefined
    /\ HasIgnorePatterns(settings)
    /\ ~semverGte(v, IgnoreGate)
    /\ SomePatternMatches(filePath, settings)

\* an --ignore flag whatever the tool version
IgnoreArgsUngated(filePath, settings, v) ==
    IF filePath # Undefined /\ HasIgnorePatterns(settings)
    THEN <<(<<"--ignore=">> \o join(settings.ignorePatterns.items))>>
    ELSE <<>>

IgnoreArgs(filePath, settings, v) ==
    IF /\ filePath # Undefined
       /\ HasIgnorePatterns(settings)
       /\ semverGte(v, IgnoreGate)
    THEN <<(<<"--ignore=">> \o join(settings.ignorePatterns.items))>>
    ELSE <<>>

\* the configured warning severity whatever showWarnings is
WarningSeverityAsSet(settings) == settings.warningSeverity

WarningSeverity(settings) ==
    IF settings.showWarnings = FALSE THEN "0" ELSE settings.warningSeverity

\* the filename always in the stream
StdinNamed(filePath, v, fileText) ==
    IF filePath # Undefined
    THEN <<"phpcs_input_file: ", filePath, EOL, fileText>>
    ELSE <<fileText>>

\* --stdin-path even without a file path
FileNameArgsAlways(filePath, v) ==
    IF semverGte(v, StdinPathGate) THEN <<(<<"--stdin-path=", filePath>>)>>
    ELSE <<>>

\* the switch on the method of setting the file name: the flag
FileNameArgs(filePath, v) ==
    IF filePath # Undefined /\ semverGte(v, StdinPathGate)
    THEN <<(<<"--stdin-path=", filePath>>)>>
    ELSE <<>>

\* the same switch: the text written to stdin
StdinText(filePath, v, fileText) ==
    IF filePath = Undefined THEN <<fileText>>
    ELSE CASE semverGte(v, StdinPathGate) -> <<fileText>>
           [] OTHER ->
                IF semverSatisfies(v, PreambleGate, StdinPathGate)
                THEN <<"phpcs_input_file: ", filePath, EOL, fileText>>
                ELSE <<fileText>>

lintArgs(filePath, settings, v) ==
    <<(<<"--report=json">>)>>
    \o (IF semverGte(v, QuietGate) THEN <<(<<"-q">>)>> ELSE <<>>)
    \o (IF settings.showSources = TRUE THEN <<(<<"-s">>)>> ELSE <<>>)
    \o (IF semverGte(v, EncodingGate) THEN <<(<<"--encoding=UTF-8">>)>> ELSE <<>>)
    \o (IF settings.standard # Null
        THEN <<(<<"--standard=", settings.standard>>)>> ELSE <<>>)
    \o IgnoreArgs(filePath, settings, v)
    \o <<(<<"--error-severity=", settings.errorSeverity>>)>>
    \o <<(<<"--warning-severity=", WarningSeverity(settings)>>)>>
    \o FileNameArgs(filePath, v)
    \o <<(<<"-">>)>>

\* lint: either resolve([]) at once or cs.spawn(executablePath, lintArgs)
\* and phpcs.stdin.write(text)
lint(in) ==
    IF in.fileText = "" \/ IgnoredLocally(in.filePath, in.settings, in.version)
    THEN [pc |-> "resolved", diagnostics |-> <<>>,
          spawned |-> FALSE, args |-> <<>>, stdin |-> <<>>]
    ELSE [pc |-> "spawned", diagnostics |-> <<>>,
          spawned |-> TRUE,
          args |-> lintArgs(in.filePath, in.settings, in.version),
          stdin |-> StdinText(in.filePath, in.version, in.fileText)]

LintInputs ==
    [pc : {"given"}, filePath : FilePaths, fileText : FileTexts,
     version : Versions, settings : Settings]

InitLint ==
    /\ ServerInit
    /\ rev = "server"
    /\ ~hasConfigurationCapability
    /\ MsgIdle
    /\ lintIn \in LintInputs
    /\ lintRun = [pc |-> "new", probes |-> 0]
    /\ closeIn = NotCalled /\ closeOut = NotCalled
    /\ diagIn = NotCalled /\ diagOut = NotCalled
    /\ resIn = NotCalled /\ resOut = NotCalled
    /\ ExtIdle

\* validateSingle: await PhpcsLinter.create(...) runs `phpcs --version`
\* and resolves with a linter of the version it printed
CreateLinter ==
    /\ lintRun.pc = "new"
    /\ lintRun' = [pc |-> "created", probes |-> lintRun.probes + 1]
    /\ UNCHANGED <<srvVars, msgVars, lintIn, closeVars, diagVars, resVars, extVars>>

\* validateSingle: await phpcs.lint(document, settings)
Lint ==
    /\ lintRun.pc = "created"
    /\ lintRun' = lint(lintIn) @@ [probes |-> lintRun.probes]
    /\ UNCHANGED <<srvVars, msgVars, lintIn, closeVars, diagVars, resVars, extVars>>

NextLint == CreateLinter \/ Lint

SpecLint == InitLint /\ [][NextLint]_vars

---------------------------------------------------------------------------
(* PhpcsLinter.lint, the handler of the subprocess's close event.  A       *)
(* message is the sequence of the pieces of its text.                      *)

DQ == "\""

\* stdout `ERROR: the "<standard>" coding standard is not installed.`,
\* after /^ERROR:\s?(.*)/i and trim()
StandardNotInstalledOutput(standard) ==
    <<"the ", DQ, standard, DQ, " coding standard is not installed.">>

\* error.match(/^the \"(.*)\" coding standard is not installed\./)
MatchesStandardNotInstalled(error) ==
    /\ Len(error) = 5
    /\ error[1] = "the " /\ error[2] = DQ /\ error[4] = DQ
    /\ error[5] = " coding standard is not installed."

\* a message that leaves the name of the standard out
CodingStandardUnnamed(standard) ==
    <<"The coding standard set in your configuration is not installed. Please review your configuration an try again.">>

\* `The "${match[1]}" coding standard set in your configuration is not ...`
CodingStandardNotInstalled(standard) ==
    <<"The ", DQ, standard, DQ,
      " coding standard set in your configuration is not installed. Please review your configuration an try again.">>

\* stdout `FATAL ERROR: Uncaught exception '<class>' with message '<m>'`
UncaughtExceptionOutput(m) ==
    <<"Uncaught exception '", "Exception", "' with message '", m, "'">>

\* error.match(/^Uncaught exception '.*' with message '(.*)'/)
MatchesUncaughtException(error) ==
    /\ Len(error) = 5
    /\ error[1] = "Uncaught exception '" /\ error[3] = "' with message '"
    /\ error[5] = "'"

\* an entry of data.files: an object with or without a messages array
FileEntries ==
    {[hasMessages |-> FALSE, messages |-> <<>>],
     [hasMessages |-> TRUE, messages |-> <<>>],
     [hasMessages |-> TRUE, messages |-> <<"m1">>]}

ReportKeys == {"/w/a.php", "/r/a.php", "STDIN"}

\* data.files: absent, or an object with at most one key
ReportFiles ==
    {[present |-> FALSE, entries |-> <<>>], [present |-> TRUE, entries |-> <<>>]}
    \cup {[present |-> TRUE, entries |-> [k \in {key} |-> e]] :
            key \in ReportKeys, e \in FileEntries}

\* the reports phpcs prints: totals.errors counts the messages listed
Reports ==
    {d \in [totals : [errors : {0, 1}, warnings : {0}], files : ReportFiles] :
        \A k \in DOMAIN d.files.entries :
            Len(d.files.entries[k].messages) = d.totals.errors}

NoReport ==
    [totals |-> [errors |-> 0, warnings |-> 0],
     files |-> [present |-> FALSE, entries |-> <<>>]]

\* stdout.toString().trim()
Stdouts ==
    {[kind |-> "ERROR", text |-> StandardNotInstalledOutput("Foo"), data |-> NoReport],
     [kind |-> "ERROR", text |-> <<"No files">>, data |-> NoReport],
     [kind |-> "FATAL", text |-> UncaughtExceptionOutput("boom"), data |-> NoReport],
     [kind |-> "FATAL", text |-> <<"Out of memory">>, data |-> NoReport],
     [kind |-> "text", text |-> <<"Warning: not json">>, data |-> NoReport]}
    \cup {[kind |-> "json", text |-> <<>>, data |-> d] : d \in Reports}

\* what phpcs wrote to stderr
Stderrs == {"", "PHP Notice: something"}

\* fs.realpathSync(filePath)
RealPaths == {"/w/a.php", "/r/a.php"}

CloseInputs ==
    [pc : {"closed"}, stdout : Stdouts, stderr : Stderrs, realPath : RealPaths]

Resolve(diagnostics) ==
    [kind |-> "resolve", diagnostics |-> diagnostics, error |-> <<>>]
Reject(error) ==
    [kind |-> "reject", diagnostics |-> <<>>, error |-> error]

TypeError == <<"TypeError">>
SyntaxError == <<"SyntaxError">>

\* messages.map(message => diagnostics.push(makeDiagnostic(...)))
DiagnosticsOf(messages) ==
    [i \in DOMAIN messages |-> [message |-> messages[i], source |-> "phpcs"]]

\* the key under which the close handler looks for the document
ReportKey(in, c) ==
    IF in.filePath # Undefined /\ semverGte(in.version, PreambleGate)
    THEN c.realPath
    ELSE "STDIN"

\* a close handler that does not call resolve for a missing key
readReportWithoutEarlyResolve(data, key) ==
    IF ~data.files.present THEN <<Reject(TypeError)>>
    ELSE IF key \notin DOMAIN data.files.entries THEN <<Reject(TypeError)>>
    ELSE IF ~data.files.entries[key].hasMessages THEN <<Reject(TypeError)>>
    ELSE <<Resolve(DiagnosticsOf(data.files.entries[key].messages))>>

\* the close handler from JSON.parse on: the calls of resolve and reject
\* it makes, in order
readReport(data, key) ==
    IF ~data.files.present THEN <<Reject(TypeError)>>
    ELSE IF key \notin DOMAIN data.files.entries
    THEN <<Resolve(<<>>), Reject(TypeError)>>
    ELSE IF ~data.files.entries[key].hasMessages THEN <<Reject(TypeError)>>
    ELSE <<Resolve(DiagnosticsOf(data.files.entries[key].messages))>>

\* window.showErrorMessage(`phpcs: ${error.message}`) after
\* throw new Error(this.getExceptionMessage(error, document))
ShownMessage(error) ==
    <<"phpcs: ">> \o getExceptionMessage([isString |-> TRUE, text |-> error])

\* phpcs.on("close", ...)
onClose(in, c) ==
    LET settle(calls, parsed, key) ==
            [pc |-> "settled", calls |-> calls, parsed |-> parsed, key |-> key,
             shown |-> IF calls[1].kind = "reject"
                       THEN ShownMessage(calls[1].error) ELSE <<>>]
    IN  CASE c.stdout.kind = "ERROR" ->
                settle(<<Reject(IF MatchesStandardNotInstalled(c.stdout.text)
                             THEN CodingStandardNotInstalled(c.stdout.text[3])
                             ELSE c.stdout.text)>>, FALSE, "none")
          [] c.stdout.kind = "FATAL" ->
                settle(<<Reject(IF MatchesUncaughtException(c.stdout.text)
                             THEN <<c.stdout.text[4]>>
                             ELSE c.stdout.text)>>, FALSE, "none")
          [] c.stdout.kind = "text" ->
                settle(<<Reject(SyntaxError)>>, TRUE, "none")
          [] c.stdout.kind = "json" ->
                settle(readReport(c.stdout.data, ReportKey(in, c)), TRUE,
                    ReportKey(in, c))

\* the documents, versions and patterns lint is given; the settings that
\* only choose flags are fixed
CloseLintInputs ==
    {in \in LintInputs :
        /\ in.settings.showSources = FALSE
        /\ in.settings.standard = Null
        /\ in.settings.showWarnings = TRUE
        /\ in.settings.warningSeverity = "5"}

InitClose ==
    /\ ServerInit
    /\ rev = "server"
    /\ ~hasConfigurationCapability
    /\ MsgIdle
    /\ lintIn \in CloseLintInputs
    /\ lintRun = [pc |-> "new", probes |-> 0]
    /\ closeIn = NotCalled /\ closeOut = NotCalled
    /\ diagIn = NotCalled /\ diagOut = NotCalled
    /\ resIn = NotCalled /\ resOut = NotCalled
    /\ ExtIdle

\* phpcs exits and its streams are closed
Close ==
    /\ lintRun.pc = "spawned"
    /\ closeIn = NotCalled
    /\ \E c \in CloseInputs :
          /\ closeIn' = c
          /\ closeOut' = onClose(lintIn, c)
    /\ UNCHANGED <<srvVars, msgVars, lintVars, diagVars, resVars, extVars>>

NextClose == CreateLinter \/ Lint \/ Close

SpecClose == InitClose /\ [][NextClose]_vars

---------------------------------------------------------------------------
(* makeDiagnostic.  A line is the sequence of its char codes; positions    *)
(* are counted from 0 as in the source.                                    *)

MaxLineLen == 4

\* space, '$', ';', '_' and 'a'
CharCodes == {32, 36, 59, 95, 97}
Underscore == 95
\* charCodeAt outside the string: every comparison with it is false
NaN == 0 - 1

isWhitespace(charCode) ==
    (charCode >= 9 /\ charCode <= 13) \/ charCode = 32

isAlphaNumeric(charCode) ==
    ~(/\ ~(charCode > 47 /\ charCode < 58)
      /\ ~(charCode > 64 /\ charCode < 91)
      /\ ~(charCode > 96 /\ charCode < 123))

isSymbol(charCode) == charCode = 36 \/ charCode = 64

charCodeAt(s, i) == IF i >= 0 /\ i < Len(s) THEN s[i + 1] ELSE NaN

RECURSIVE LineStringsOf(_)
\* the lines of n characters
LineStringsOf(n) ==
    IF n = 0 THEN {<<>>}
    ELSE {<<c>> \o s : c \in CharCodes, s \in LineStringsOf(n - 1)}

LineStrings == UNION {LineStringsOf(n) : n \in 0..MaxLineLen}

\* document.getText().split("\n") with the message's line last
LinesWith(lineString, line) ==
    [k \in 1..line |-> IF k = line THEN lineString ELSE <<>>]

\* a PhpcsMessage, with its column on the line or just behind it
PhpcsMessages(lineString) ==
    [line : {1, 2}, column : 1..(Len(lineString) + 1),
     type : {"ERROR", "WARNING"}, message : {"m1"}, source : {"S.N"}]

\* the document, the message and the options makeDiagnostic is given
DiagInput(lineString, entry, showSources) ==
    [pc |-> "given", lines |-> LinesWith(lineString, entry.line),
     entry |-> entry, showSources |-> showSources]

RECURSIVE whitespaceEnd(_, _, _)
\* for (i = start + 1; i < len; i++) { if (!isWhitespace) break; end = i; }
whitespaceEnd(lineString, i, end) ==
    IF i < Len(lineString) /\ isWhitespace(charCodeAt(lineString, i))
    THEN whitespaceEnd(lineString, i + 1, i)
    ELSE end

\* the forward loop of the word branch begun at the anchor itself
RECURSIVE wordEndFromAnchor(_, _, _)
wordEndFromAnchor(lineString, i, end) ==
    IF /\ i - 1 < Len(lineString)
       /\ ~(/\ ~isAlphaNumeric(charCodeAt(lineString, i - 1))
            /\ charCodeAt(lineString, i - 1) # Underscore)
    THEN wordEndFromAnchor(lineString, i + 1, end + 1)
    ELSE end

RECURSIVE wordEnd(_, _, _)
\* for (i = start + 1; i < len; i++) { if (!alnum && !== 95) break; end += 1; }
wordEnd(lineString, i, end) ==
    IF /\ i < Len(lineString)
       /\ ~(/\ ~isAlphaNumeric(charCodeAt(lineString, i))
            /\ charCodeAt(lineString, i) # Underscore)
    THEN wordEnd(lineString, i + 1, end + 1)
    ELSE end

\* a backward loop that never runs
wordStartAtAnchor(lineString, i, start) == start

RECURSIVE wordStart(_, _, _)
\* for (i = start; i > 0; i--) { if (!alnum && !symbol && !== 95) break; start -= 1; }
wordStart(lineString, i, start) ==
    IF /\ i > 0
       /\ ~(/\ ~isAlphaNumeric(charCodeAt(lineString, i - 1))
            /\ ~isSymbol(charCodeAt(lineString, i - 1))
            /\ charCodeAt(lineString, i - 1) # Underscore)
    THEN wordStart(lineString, i - 1, start - 1)
    ELSE start

makeDiagnostic(in) ==
    LET line == in.entry.line - 1
        lineString == in.lines[line + 1]
        start == in.entry.column - 1
        end == in.entry.column
        charCode == charCodeAt(lineString, start)
        columns ==
            IF isWhitespace(charCode)
            THEN <<start, whitespaceEnd(lineString, start + 1, end)>>
            ELSE IF isAlphaNumeric(charCode) \/ isSymbol(charCode)
            THEN <<wordStart(lineString, start, start),
                   wordEnd(lineString, start + 1, end)>>
            ELSE <<start, end>>
    IN  [pc |-> "made",
         range |-> [start |-> [line |-> line, character |-> columns[1]],
                    end |-> [line |-> line, character |-> columns[2]]],
         severity |-> IF in.entry.type = "WARNING" THEN "Warning" ELSE "Error",
         message |-> IF in.showSources
                     THEN <<in.entry.message, "LF", "(", in.entry.source, ")">>
                     ELSE <<in.entry.message>>,
         source |-> "phpcs"]

InitDiag ==
    /\ ServerInit
    /\ rev = "server"
    /\ ~hasConfigurationCapability
    /\ MsgIdle
    /\ lintIn = NotCalled /\ lintRun = NotCalled
    /\ closeIn = NotCalled /\ closeOut = NotCalled
    /\ \E s \in LineStrings, showSources \in BOOLEAN :
          \E entry \in PhpcsMessages(s) :
              diagIn = DiagInput(s, entry, showSources)
    /\ diagOut = NotCalled
    /\ resIn = NotCalled /\ resOut = NotCalled
    /\ ExtIdle

\* the close handler maps one message of the report
MakeDiagnostic ==
    /\ diagIn.pc = "given"
    /\ diagOut = NotCalled
    /\ diagOut' = makeDiagnostic(diagIn)
    /\ UNCHANGED <<srvVars, msgVars, lintVars, closeVars, diagIn, resVars, extVars>>

NextDiag == MakeDiagnostic

SpecDiag == InitDiag /\ [][NextDiag]_vars

---------------------------------------------------------------------------
(* Finding the phpcs executable.  Three revisions are modelled:            *)
(*   "linter"  PhpcsLinter.create with the resolvers of linter.ts          *)
(*   "client"  PhpcsConfiguration.resolveExecutablePath with the           *)
(*             resolvers of src/phpcs/src/resolvers and part_013           *)
(*   "readme"  PhpcsLinter.resolvePath with the single PhpcsPathResolver   *)
(*             listed in src/phpcs/README.md                               *)

MaxPathDirs == 2

ResolverRevisions == {"linter", "client", "readme"}

\* a path: what it was built from, and for a PATH directory its position
NoPath == [kind |-> "null", dir |-> 0]
AbsolutePath == [kind |-> "absolute", dir |-> 0]
RelativePath == [kind |-> "relative", dir |-> 0]
\* path.join(settings.workspaceRoot, settings.executablePath)
JoinedPath == [kind |-> "workspaceRoot/relative", dir |-> 0]
\* this.phpcsExecutable alone
BarePhpcs == [kind |-> "phpcs", dir |-> 0]
\* path.join(globalPath, this.phpcsExecutableFile)
GlobalPath(i) == [kind |-> "PATH", dir |-> i]

\* composer.json: absent, unparsable, without config, or with config.bin-dir
ComposerJsons == {"absent", "broken", "plain", "bin-dir"}
\* composer.lock: absent, unparsable, without or with the phpcs package
ComposerLocks == {"absent", "broken", "without", "with"}

getVendorPath(composerJson) ==
    [kind |-> IF composerJson = "bin-dir" THEN "bin-dir/phpcs"
              ELSE "vendor/bin/phpcs",
     dir |-> 0]

RECURSIVE BooleanSeqs(_)
BooleanSeqs(n) ==
    IF n = 0 THEN {<<>>}
    ELSE {Append(s, b) : s \in BooleanSeqs(n - 1), b \in BOOLEAN}

\* process.env.PATH.split(pathSeparator): for each directory, whether it
\* holds the phpcs executable
PathVariables == UNION {BooleanSeqs(n) : n \in 0..MaxPathDirs}

ResolveInputs ==
    {in \in [pc : {"given"}, revision : ResolverRevisions,
             executablePath : {NoPath, AbsolutePath, RelativePath},
             hasWorkspaceRoot : BOOLEAN, composerJson : ComposerJsons,
             composerLock : ComposerLocks, vendorExists : BOOLEAN,
             PATH : PathVariables] :
        \* the revision of README.md has no executablePath setting
        in.revision = "readme" => in.executablePath = NoPath}

NoError == [text |-> <<>>, path |-> NoPath, relative |-> FALSE]

\* `Composer phpcs dependency is configured but was not found under ...`,
\* with the vendor path as it is or relative to the workspace root
DependencyNotFound(vendorPath, relative) ==
    [text |-> <<"Composer phpcs dependency is configured but was not found under ">>,
     path |-> vendorPath, relative |-> relative]

\* `A composer configuration file was found at the root of your project
\* but seems uninitialized. ...`
ComposerUninitialized ==
    [text |-> <<"A composer configuration file was found at the root of your project but seems uninitialized.">>,
     path |-> NoPath, relative |-> FALSE]

UnableToLocate ==
    [text |-> <<"Unable to locate phpcs.",
                " Please add phpcs to your global path or use composer dependency manager to install it in your project locally.">>,
     path |-> NoPath, relative |-> FALSE]

\* the string create rejects with
UnableToLocatePrefixed == [UnableToLocate EXCEPT !.text = <<"phpcs: ">> \o @]

Returns(path) == [kind |-> "return", path |-> path, error |-> NoError]
Throws(error) == [kind |-> "throw", path |-> NoPath, error |-> error]

\* ComposerPhpcsPathResolver.resolve of linter.ts
composerResolveLinter(in) ==
    IF ~in.hasWorkspaceRoot THEN Returns(NoPath)
    ELSE IF in.composerJson = "absent" THEN Returns(NoPath)
    ELSE IF in.composerLock = "absent" THEN Throws(ComposerUninitialized)
    ELSE IF in.composerLock # "with" THEN Returns(NoPath)
    ELSE IF in.vendorExists THEN Returns(getVendorPath(in.composerJson))
    ELSE Throws(DependencyNotFound(getVendorPath(in.composerJson), FALSE))

\* a composer resolver that gives no result when the binary is missing
composerResolveLenient(in) ==
    IF in.hasWorkspaceRoot /\ in.composerJson # "absent"
          /\ in.composerLock = "with" /\ in.vendorExists
    THEN Returns(getVendorPath(in.composerJson))
    ELSE Returns(NoPath)

\* ComposerPhpcsPathResolver.resolve of composer-path-resolver.ts
composerResolveClient(in) ==
    IF ~in.hasWorkspaceRoot THEN Returns(NoPath)
    ELSE IF /\ in.composerJson # "absent"
            /\ in.composerLock # "absent"
            /\ in.composerLock = "with"
    THEN IF in.vendorExists THEN Returns(getVendorPath(in.composerJson))
         ELSE Throws(DependencyNotFound(getVendorPath(in.composerJson), TRUE))
    ELSE Returns(NoPath)

RECURSIVE firstMatch(_, _)
\* globalPaths.some(...): stops at the first directory that holds phpcs
firstMatch(PATH, i) ==
    IF i > Len(PATH) THEN NoPath
    ELSE IF PATH[i] THEN GlobalPath(i)
    ELSE firstMatch(PATH, i + 1)

RECURSIVE lastMatch(_, _, _)
\* globalPaths.forEach(...): `return false` does not stop the loop
lastMatch(PATH, i, phpcsPath) ==
    IF i > Len(PATH) THEN phpcsPath
    ELSE lastMatch(PATH, i + 1, IF PATH[i] THEN GlobalPath(i) ELSE phpcsPath)

\* GlobalPhpcsPathResolver.resolve
globalResolve(in) == Returns(firstMatch(in.PATH, 1))

runResolver(name, in) ==
    CASE name = "composer" /\ in.revision = "client" -> composerResolveClient(in)
      [] name = "composer" /\ in.revision # "client" -> composerResolveLinter(in)
      [] name = "global" -> globalResolve(in)

\* the resolvers in the reverse order
ResolversGlobalFirst(in) == <<"global", "composer">>

\* this.resolvers as the constructor of PhpcsPathResolver fills it
Resolvers(in) ==
    IF in.revision = "client" /\ ~in.hasWorkspaceRoot
    THEN <<"global">>
    ELSE <<"composer", "global">>

RECURSIVE resolveFrom(_, _, _)
\* PhpcsPathResolver.resolve: the loop over this.resolvers
resolveFrom(in, resolvers, consulted) ==
    IF resolvers = <<>>
    THEN Returns(NoPath) @@ [consulted |-> consulted]
    ELSE LET r == runResolver(Head(resolvers), in)
             c == Append(consulted, Head(resolvers))
         IN  IF r.kind = "throw" \/ r.path # NoPath
             THEN r @@ [consulted |-> c]
             ELSE resolveFrom(in, Tail(resolvers), c)

\* PhpcsPathResolver.resolve of README.md
resolveReadme(in) ==
    LET phpcsPath == lastMatch(in.PATH, 1, BarePhpcs)
        c == composerResolveLinter(in)
    IN  (IF c.kind = "throw" \/ c.path # NoPath THEN c ELSE Returns(phpcsPath))
            @@ [consulted |-> <<"global", "composer">>]

\* cp.exec has not called back
NoProbe == [error |-> FALSE, hasVersion |-> FALSE]

Settle(r) ==
    [pc |-> IF r.kind = "throw" THEN "failed" ELSE "resolved",
     path |-> r.path, error |-> r.error, consulted |-> r.consulted,
     probe |-> NoProbe, calls |-> <<>>, uncaught |-> FALSE]

\* a create that asks the resolvers whatever executablePath is
createResolveAlways(in) == Settle(resolveFrom(in, Resolvers(in), <<>>))

\* PhpcsLinter.create up to cp.exec
createResolve(in) ==
    IF in.executablePath = NoPath
    THEN Settle(resolveFrom(in, Resolvers(in), <<>>))
    ELSE Settle(Returns(in.executablePath) @@ [consulted |-> <<>>])

\* PhpcsConfiguration.resolveExecutablePath
resolveExecutablePath(in) ==
    IF in.executablePath = NoPath
    THEN LET r == resolveFrom(in, Resolvers(in), <<>>)
         IN  IF r.kind = "return" /\ r.path = NoPath
             THEN Settle(Throws(UnableToLocate) @@ [consulted |-> r.consulted])
             ELSE Settle(r)
    ELSE IF in.executablePath = RelativePath /\ in.hasWorkspaceRoot
    THEN Settle(Returns(JoinedPath) @@ [consulted |-> <<>>])
    ELSE Settle(Returns(in.executablePath) @@ [consulted |-> <<>>])

\* the executable path, in each of the three revisions
resolvePath(in) ==
    CASE in.revision = "linter" -> createResolve(in)
      [] in.revision = "client" -> resolveExecutablePath(in)
      [] in.revision = "readme" -> Settle(resolveReadme(in))

\* what cp.exec(`${command} --version`) calls back with: an error or not,
\* and whether stdout begins with `PHP_CodeSniffer version N.N.N`.  No
\* command is called `null`, and `phpcs` is in no PATH directory when it
\* is called by its bare name: then the shell fails and stdout is empty.
VersionProbes(path) ==
    IF path \in {NoPath, BarePhpcs}
    THEN {[error |-> TRUE, hasVersion |-> FALSE]}
    ELSE [error : BOOLEAN, hasVersion : BOOLEAN]

RejectUnableToLocate == [kind |-> "reject", error |-> UnableToLocatePrefixed]
ResolveLinter == [kind |-> "resolve", error |-> NoError]

\* the callback of cp.exec in PhpcsLinter.create: the calls of reject and
\* resolve it makes, and whether versionMatches[1] throws out of it
createCallback(probe) ==
    [calls |-> (IF probe.error THEN <<RejectUnableToLocate>> ELSE <<>>)
                \o (IF probe.hasVersion THEN <<ResolveLinter>> ELSE <<>>),
     uncaught |-> ~probe.hasVersion]

\* the callback of cp.exec in PhpcsLinter.resolvePath of README.md
resolvePathCallback(probe) ==
    [calls |-> (IF probe.error THEN <<RejectUnableToLocate>> ELSE <<>>)
                \o <<ResolveLinter>>,
     uncaught |-> FALSE]

InitResolve ==
    /\ ServerInit
    /\ rev = "server"
    /\ ~hasConfigurationCapability
    /\ MsgIdle
    /\ lintIn = NotCalled /\ lintRun = NotCalled
    /\ closeIn = NotCalled /\ closeOut = NotCalled
    /\ diagIn = NotCalled /\ diagOut = NotCalled
    /\ resIn \in ResolveInputs
    /\ resOut = NotCalled
    /\ ExtIdle

\* the executable path is worked out
ResolvePath ==
    /\ resIn.pc = "given"
    /\ resOut = NotCalled
    /\ resOut' = resolvePath(resIn)
    /\ UNCHANGED <<srvVars, msgVars, lintVars, closeVars, diagVars, resIn, extVars>>

\* the --version subprocess of create or resolvePath calls back
VersionProbeCallsBack ==
    /\ resIn.revision # "client"
    /\ resOut.pc = "resolved"
    /\ \E probe \in VersionProbes(resOut.path) :
          \E cb \in {IF resIn.revision = "linter" THEN createCallback(probe)
                     ELSE resolvePathCallback(probe)} :
              resOut' = [resOut EXCEPT !.pc = "probed", !.probe = probe,
                                       !.calls = cb.calls,
                                       !.uncaught = cb.uncaught]
    /\ UNCHANGED <<srvVars, msgVars, lintVars, closeVars, diagVars, resIn, extVars>>

NextResolve == ResolvePath \/ VersionProbeCallsBack

SpecResolve == InitResolve /\ [][NextResolve]_vars

---------------------------------------------------------------------------
(* One document edited while it is validated (server.ts, no configuration  *)
(* capability, phpcs enabled).  The text of the document is the number of  *)
(* its revision: FullTextDocument.update replaces _content in place, and   *)
(* every reader holding the document object sees the new text.             *)

\* content changes delivered to one document
MaxEdits == 3
\* validations of the document in flight together
MaxRuns == 2

NoText == 0

\* FullTextDocument.getText
getText(e) == e.text

\* FullTextDocument.update
update(e) == [e EXCEPT !.text = @ + 1]

NewRun == [pc |-> "create", stdin |-> NoText]

\* validateSingle called by each of the handlers of one event: the guards
\* are read before any continuation runs, the settings are a resolved
\* promise, and each call that passed marks the URI and awaits create
validateSingleOf(e, handlers) ==
    IF e.validating
    THEN e
    ELSE [e EXCEPT !.validating = TRUE,
                   !.runs = @ \o [i \in 1..handlers |-> NewRun]]

RemoveRun(runs, i) ==
    [j \in 1..(Len(runs) - 1) |-> IF j < i THEN runs[j] ELSE runs[j + 1]]

\* lint up to the spawn: the text is read once and written to stdin
lintSpawn(e, i) ==
    [e EXCEPT !.runs[i] = [pc |-> "lint", stdin |-> getText(e)]]

\* a failed create leaves validateSingle with the URI still marked
createFailed(e, i) == [e EXCEPT !.runs = RemoveRun(@, i)]

\* the close handler maps each message with makeDiagnostic, which reads
\* document.getText(); then the end notification and the publication
lintClosed(e, i) ==
    [e EXCEPT !.validating = FALSE,
              !.stdin = e.runs[i].stdin,
              !.mapped = getText(e),
              !.runs = RemoveRun(@, i)]

\* lint's catch: the end notification only
lintFailed(e, i) ==
    [e EXCEPT !.validating = FALSE, !.runs = RemoveRun(@, i)]

ClosedDocument ==
    [pc |-> "closed", text |-> NoText, validating |-> FALSE, runs |-> <<>>,
     stdin |-> NoText, mapped |-> NoText]

InitEdit ==
    /\ ServerInit
    /\ rev = "server"
    /\ ~hasConfigurationCapability
    /\ MsgIdle
    /\ lintIn = NotCalled /\ lintRun = NotCalled
    /\ closeIn = NotCalled /\ closeOut = NotCalled
    /\ diagIn = NotCalled /\ diagOut = NotCalled
    /\ resIn = NotCalled /\ resOut = NotCalled
    /\ edit = ClosedDocument
    /\ queueing = NotCalled /\ status = NotCalled /\ fullText = NotCalled

EditFrame ==
    UNCHANGED <<srvVars, msgVars, lintVars, closeVars, diagVars, resVars,
                queueing, status, fullText>>

\* documents.listen, onDidOpenTextDocument: the document is created, then
\* the open and the content-changed handlers run
EditorOpens ==
    /\ edit.pc = "closed"
    /\ edit' = validateSingleOf([edit EXCEPT !.pc = "open", !.text = 1], 2)
    /\ EditFrame

\* documents.listen, onDidChangeTextDocument, then onDidChangeDocument
EditorChanges ==
    /\ edit.pc = "open"
    /\ edit.text < MaxEdits + 1
    /\ Len(edit.runs) < MaxRuns \/ edit.validating
    /\ edit' = validateSingleOf(update(edit), 1)
    /\ EditFrame

\* onDidSaveDocument
EditorSaves ==
    /\ edit.pc = "open"
    /\ Len(edit.runs) < MaxRuns \/ edit.validating
    /\ edit' = validateSingleOf(edit, 1)
    /\ EditFrame

CreateSettlesFor(i) ==
    /\ edit.pc = "open"
    /\ i \in DOMAIN edit.runs
    /\ edit.runs[i].pc = "create"
    /\ \E ok \in BOOLEAN :
          edit' = IF ok THEN lintSpawn(edit, i) ELSE createFailed(edit, i)
    /\ EditFrame

PhpcsClosesFor(i) ==
    /\ edit.pc = "open"
    /\ i \in DOMAIN edit.runs
    /\ edit.runs[i].pc = "lint"
    /\ \E ok \in BOOLEAN :
          edit' = IF ok THEN lintClosed(edit, i) ELSE lintFailed(edit, i)
    /\ EditFrame

NextEdit ==
    \/ EditorOpens
    \/ EditorChanges
    \/ EditorSaves
    \/ \E i \in 1..MaxRuns : CreateSettlesFor(i)
    \/ \E i \in 1..MaxRuns : PhpcsClosesFor(i)

SpecEdit == InitEdit /\ [][NextEdit]_vars

---------------------------------------------------------------------------
(* The queueing revision (src/unnamed/part_017): validate keeps, for each  *)
(* URI, isValidating and needsValidating.  A document is the number of the *)
(* request that carried it.                                                *)

\* content changes delivered to one document
MaxRequests == 3

NoDocument == 0

PhpcsOutputs == {"report", "standard not installed", "not JSON"}

\* validate
validate(q, uri, document) ==
    IF ~q.ready \/ q.isValidating[uri]
    THEN [q EXCEPT !.needsValidating[uri] = document]
    ELSE [q EXCEPT !.isValidating[uri] = TRUE, !.child[uri] = document]

\* validate, the handler of the subprocess's close event.  JSON.parse
\* throws on a response that is no JSON text, and the rest of the handler
\* is not run.
childClosed(q, uri, output) ==
    LET exited == [q EXCEPT !.child[uri] = NoDocument]
        reported ==
            IF output = "report"
            THEN [exited EXCEPT !.published[uri] = q.child[uri]]
            ELSE exited
        finished == [reported EXCEPT !.isValidating[uri] = FALSE]
        revalidateDocument == finished.needsValidating[uri]
    IN  IF output = "not JSON"
        THEN exited
        ELSE IF revalidateDocument # NoDocument
             THEN validate([finished EXCEPT
                                !.needsValidating[uri] = NoDocument],
                           uri, revalidateDocument)
             ELSE finished

\* documents.all(); validate touches the entries of its own URI only, so
\* the order of the documents makes no difference
AllDocuments == <<"a", "b">>

\* validateMany: validate for each open document
RECURSIVE validateAll(_, _)
validateAll(q, uris) ==
    IF uris = <<>>
    THEN q
    ELSE validateAll(IF q.requested[Head(uris)] = NoDocument
                     THEN q
                     ELSE validate(q, Head(uris), q.requested[Head(uris)]),
                     Tail(uris))

NotReady ==
    [pc |-> "listening", ready |-> FALSE,
     isValidating |-> [u \in URIS |-> FALSE],
     needsValidating |-> [u \in URIS |-> NoDocument],
     child |-> [u \in URIS |-> NoDocument],
     requested |-> [u \in URIS |-> NoDocument],
     published |-> [u \in URIS |-> NoDocument]]

InitQueueing ==
    /\ ServerInit
    /\ rev = "server"
    /\ ~hasConfigurationCapability
    /\ MsgIdle
    /\ lintIn = NotCalled /\ lintRun = NotCalled
    /\ closeIn = NotCalled /\ closeOut = NotCalled
    /\ diagIn = NotCalled /\ diagOut = NotCalled
    /\ resIn = NotCalled /\ resOut = NotCalled
    /\ queueing = NotReady
    /\ edit = NotCalled /\ status = NotCalled /\ fullText = NotCalled

QueueingFrame ==
    UNCHANGED <<srvVars, msgVars, lintVars, closeVars, diagVars, resVars,
                edit, status, fullText>>

\* documents.onDidChangeContent: validateSingle
ContentChanges(uri) ==
    /\ queueing.pc = "listening"
    /\ queueing.requested[uri] < MaxRequests
    /\ LET document == queueing.requested[uri] + 1
       IN  queueing' = validate([queueing EXCEPT !.requested[uri] = document],
                                uri, document)
    /\ QueueingFrame

\* connection.onDidChangeConfiguration: validateMany(documents.all())
ConfigurationChanges ==
    /\ queueing.pc = "listening"
    /\ queueing' = validateAll([queueing EXCEPT !.ready = TRUE], AllDocuments)
    /\ QueueingFrame

ChildCloses(uri, output) ==
    /\ queueing.pc = "listening"
    /\ queueing.child[uri] # NoDocument
    /\ queueing' = childClosed(queueing, uri, output)
    /\ QueueingFrame

NextQueueing ==
    \/ \E uri \in URIS : ContentChanges(uri)
    \/ ConfigurationChanges
    \/ \E uri \in URIS, output \in PhpcsOutputs : ChildCloses(uri, output)

SpecQueueing == InitQueueing /\ [][NextQueueing]_vars

---------------------------------------------------------------------------
(* The client's PhpcsStatus (src/phpcs/src/status.ts) and its Timer.  An   *)
(* interval is the number of the setInterval call that made it.            *)

\* setInterval calls made by the timer
MaxIntervals == 4

SpinnerLength == 4

NoHandle == 0

\* Timer.start
start(s) ==
    LET handle == s.created + 1
    IN  [s EXCEPT !.enable = TRUE, !.created = handle, !.handle = handle,
                  !.intervals = @ \cup {handle}]

\* Timer.stop: clearInterval of the handle kept last
stop(s) ==
    [s EXCEPT !.enable = FALSE,
              !.intervals = IF s.handle # NoHandle THEN @ \ {s.handle} ELSE @]

\* PhpcsStatus.updateStatusText with getNextSpinnerChar
updateStatusText(s) ==
    IF s.processing > 0
    THEN [s EXCEPT !.text = [count |-> s.processing,
                             spinner |-> s.spinnerIndex],
                   !.spinnerIndex = IF @ + 1 > SpinnerLength - 1
                                    THEN 0 ELSE @ + 1]
    ELSE [s EXCEPT !.text = [count |-> 0, spinner |-> 0]]

\* PhpcsStatus.startProcessing
startProcessing(s) ==
    [start([s EXCEPT !.processing = @ + 1]) EXCEPT !.visible = TRUE]

\* PhpcsStatus.endProcessing
endProcessing(s) ==
    LET counted == [s EXCEPT !.processing = @ - 1]
    IN  IF counted.processing = 0
        THEN updateStatusText([stop(counted) EXCEPT !.visible = FALSE])
        ELSE counted

NewStatus ==
    [pc |-> "created", processing |-> 0, enable |-> FALSE, created |-> 0,
     handle |-> NoHandle, intervals |-> {}, visible |-> FALSE,
     spinnerIndex |-> 0, text |-> [count |-> 0, spinner |-> 0]]

InitStatus ==
    /\ ServerInit
    /\ rev = "server"
    /\ ~hasConfigurationCapability
    /\ MsgIdle
    /\ lintIn = NotCalled /\ lintRun = NotCalled
    /\ closeIn = NotCalled /\ closeOut = NotCalled
    /\ diagIn = NotCalled /\ diagOut = NotCalled
    /\ resIn = NotCalled /\ resOut = NotCalled
    /\ status = NewStatus
    /\ edit = NotCalled /\ queueing = NotCalled /\ fullText = NotCalled

StatusFrame ==
    UNCHANGED <<srvVars, msgVars, lintVars, closeVars, diagVars, resVars,
                edit, queueing, fullText>>

\* the server's start notification for a document
StartProcessing ==
    /\ status.pc = "created"
    /\ status.created < MaxIntervals
    /\ status' = startProcessing(status)
    /\ StatusFrame

\* the server's end notification for a document that was started
EndProcessing ==
    /\ status.pc = "created"
    /\ status.processing > 0
    /\ status' = endProcessing(status)
    /\ StatusFrame

\* an interval that is still set elapses
TimerElapses ==
    /\ status.pc = "created"
    /\ status.intervals # {}
    /\ status' = updateStatusText(status)
    /\ StatusFrame

NextStatus ==
    \/ StartProcessing
    \/ EndProcessing
    \/ TimerElapses

SpecStatus == InitStatus /\ [][NextStatus]_vars

---------------------------------------------------------------------------
(* FullTextDocument (documents.ts): offsets and positions.  A text is the  *)
(* sequence of its characters, "x" standing for any character that ends no *)
(* line; offsets, lines and characters are counted from 0.                 *)

\* longest document text
MaxTextLen == 3

TextChars == {"x", "CR", "LF"}

DocumentTexts == UNION {[1..n -> TextChars] : n \in 0..MaxTextLen}

charAt(text, i) == text[i + 1]

Larger(a, b) == IF a > b THEN a ELSE b
Smaller(a, b) == IF a < b THEN a ELSE b

\* getLineOffsets, the loop from index i on
RECURSIVE lineOffsetsFrom(_, _, _, _)
lineOffsetsFrom(text, i, isLineStart, lineOffsets) ==
    IF i < Len(text)
    THEN LET pushed == IF isLineStart
                       THEN Append(lineOffsets, i)
                       ELSE lineOffsets
             ch == charAt(text, i)
             skip == /\ ch = "CR"
                     /\ i + 1 < Len(text)
                     /\ charAt(text, i + 1) = "LF"
         IN  lineOffsetsFrom(text, IF skip THEN i + 2 ELSE i + 1,
                             ch = "CR" \/ ch = "LF", pushed)
    ELSE IF isLineStart /\ Len(text) > 0
         THEN Append(lineOffsets, Len(text))
         ELSE lineOffsets

\* getLineOffsets
getLineOffsets(text) == lineOffsetsFrom(text, 0, TRUE, <<>>)

\* positionAt, the binary search: the least index whose line offset is
\* larger than the offset, or the length
RECURSIVE leastLarger(_, _, _, _)
leastLarger(lineOffsets, offset, low, high) ==
    IF low < high
    THEN LET mid == (low + high) \div 2
         IN  IF lineOffsets[mid + 1] > offset
             THEN leastLarger(lineOffsets, offset, low, mid)
             ELSE leastLarger(lineOffsets, offset, mid + 1, high)
    ELSE low

\* positionAt with the character left as the offset into the whole text
positionAtWithoutLineOffset(text, offset) ==
    LET clamped == Larger(Smaller(offset, Len(text)), 0)
        lineOffsets == getLineOffsets(text)
    IN  IF Len(lineOffsets) = 0
        THEN [line |-> 0, character |-> clamped]
        ELSE [line |-> leastLarger(lineOffsets, clamped, 0,
                                   Len(lineOffsets)) - 1,
              character |-> clamped]

\* positionAt
positionAt(text, offset) ==
    LET clamped == Larger(Smaller(offset, Len(text)), 0)
        lineOffsets == getLineOffsets(text)
        high == Len(lineOffsets)
        line == leastLarger(lineOffsets, clamped, 0, high) - 1
    IN  IF high = 0
        THEN [line |-> 0, character |-> clamped]
        ELSE [line |-> line, character |-> clamped - lineOffsets[line + 1]]

\* offsetAt
offsetAt(text, position) ==
    LET lineOffsets == getLineOffsets(text)
        lineOffset == lineOffsets[position.line + 1]
        nextLineOffset == IF position.line + 1 < Len(lineOffsets)
                          THEN lineOffsets[position.line + 2]
                          ELSE Len(text)
    IN  IF position.line >= Len(lineOffsets)
        THEN Len(text)
        ELSE IF position.line < 0
        THEN 0
        ELSE Larger(Smaller(lineOffset + position.character, nextLineOffset),
                    lineOffset)

NoPosition == [line |-> 0 - 1, character |-> 0 - 1]
NoOffset == 0 - 1

InitFullText ==
    /\ ServerInit
    /\ rev = "server"
    /\ ~hasConfigurationCapability
    /\ MsgIdle
    /\ lintIn = NotCalled /\ lintRun = NotCalled
    /\ closeIn = NotCalled /\ closeOut = NotCalled
    /\ diagIn = NotCalled /\ diagOut = NotCalled
    /\ resIn = NotCalled /\ resOut = NotCalled
    /\ edit = NotCalled /\ queueing = NotCalled /\ status = NotCalled
    /\ \E text \in DocumentTexts : \E offset \in 0..Len(text) :
          fullText = [pc |-> "given", text |-> text, offset |-> offset,
                      position |-> NoPosition, result |-> NoOffset]

FullTextFrame ==
    UNCHANGED <<srvVars, msgVars, lintVars, closeVars, diagVars, resVars,
                edit, queueing, status>>

PositionAt ==
    /\ fullText.pc = "given"
    /\ fullText' = [fullText EXCEPT
                       !.pc = "positioned",
                       !.position = positionAt(fullText.text, fullText.offset)]
    /\ FullTextFrame

OffsetAt ==
    /\ fullText.pc = "positioned"
    /\ fullText' = [fullText EXCEPT
                       !.pc = "done",
                       !.result = offsetAt(fullText.text, fullText.position)]
    /\ FullTextFrame

NextFullText ==
    \/ PositionAt
    \/ OffsetAt

SpecFullText == InitFullText /\ [][NextFullText]_vars

---------------------------------------------------------------------------
(* Properties *)

InOut(e) == \E i \in DOMAIN out : out[i] = e
Count(e) == Cardinality({i \in DOMAIN out : out[i] = e})

\* the runs of validateSingle for u that are past the guard
RunsOf(u) == {t \in Slots : tasks[t].uri = u /\ tasks[t].pc \in {"create", "lint"}}
\* the phpcs lint subprocesses running for u
LintsOf(u) == {t \in Slots : tasks[t].uri = u /\ tasks[t].pc = "lint"}

\* C1: in every reachable state, whatever the interleaving of the editor's
\* events, at most one phpcs lint subprocess is running for any one URI.
C1_AtMostOneLintPerUri ==
    \A u \in URIS : Cardinality(LintsOf(u)) <= 1

\* C2: in server.ts two triggers for the same URI delivered back to back
\* lead to one validation-started notification and one run that spawns
\* phpcs, not two.
C2_OneStartOneRun ==
    rev = "server" =>
        \A u \in URIS : Count(Start(u)) <= 1 /\ Cardinality(RunsOf(u)) <= 1

\* C3: in server.ts a URI is in the validating map only while a run of
\* validateSingle exists that will send validation-ended and remove it;
\* no failure leaves the URI in the map with nothing left to end it.
C3_ValidatingHasARun ==
    rev = "server" => \A u \in validating : RunsOf(u) # {}

\* C4: a step in which the validation of a URI fails publishes no
\* diagnostics for that URI.
C4_FailurePublishesNothing ==
    \A u \in URIS : Has("error", u) => ~Has("diag", u)

\* C5: validateMany reaches every document of its list; a failure on one
\* document never makes it skip the documents after it.
C5_NoDocumentDropped ==
    ~HasKind("dropped")

ProbeFailed ==
    \E i \in DOMAIN out : out[i].k = "probed" /\ out[i].d # <<"ok">>

C7_DisabledClearsDiagnostics ==
    \A u \in URIS :
        Has("disabled", u) =>
            /\ InOut(Diag(u, NoDiagnostics))
            /\ ~Has("probe", u)
            /\ ~Has("spawn", u)

\* C8: no phpcs subprocess is alive once forcedKillTime has passed; it has
\* been killed and the lint promise rejected.
C8_KilledAfterForcedKillTime ==
    ~HasKind("overdue")

\* the ways a validation running in the current state can fail, each with
\* its URI and the server state its failure leaves: the settings request
\* is rejected, PhpcsLinter.create rejects, lint rejects
Failures ==
    {[a |-> tasks[t].uri,
      s |-> afterSettings([St EXCEPT !.pr[tasks[t].cfg] = "rejected"], t)] :
        t \in {x \in Slots : /\ tasks[x].pc = "settings"
                             /\ tasks[x].cfg # 0
                             /\ promises[tasks[x].cfg] = "pending"}}
    \cup {[a |-> tasks[t].uri, s |-> createRejected(St, t)] :
            t \in {x \in Slots : tasks[x].pc = "create"}}
    \cup {[a |-> tasks[t].uri, s |-> lintRejected(St, t)] :
            t \in {x \in Slots : tasks[x].pc = "lint"}}

\* C9: whenever the validation of a URI a fails, every other URI b is in
\* the validating map after the failure exactly if it was before, has the
\* same cached settings promise in the same state, and gets no diagnostics
\* published.
C9_FailureFrame ==
    \A f \in Failures :
        \A b \in URIS \ {f.a} :
            /\ (b \in f.s.val) <=> (b \in validating)
            /\ f.s.ds[b] = documentSettings[b]
            /\ documentSettings[b] # 0 =>
                   f.s.pr[documentSettings[b]] = promises[documentSettings[b]]
            /\ \A i \in DOMAIN f.s.out :
                   ~(f.s.out[i].k = "diag" /\ f.s.out[i].u = b)

\* the validation of "a" has just failed while "b" is in the validating
\* map and has a cached settings promise
C9_FailureWhileOtherValidating ==
    /\ Has("error", "a")
    /\ "b" \in validating
    /\ documentSettings["b"] # 0

\* C10: for a string message getExceptionMessage returns the message with
\* every line break replaced by one space and, when that starts with
\* "ERROR: ", without the whole seven characters of the prefix.
C10_WholePrefixRemoved ==
    (msgOut.done /\ msgIn.isString) =>
        LET m == ReplaceLineBreaks(msgIn.text)
        IN  msgOut.text = IF StartsWithErrorPrefix(m)
                          THEN SubSeq(m, Len(ErrorPrefix) + 1, Len(m))
                          ELSE m

---------------------------------------------------------------------------
(* Properties of lint's command line *)

\* lint has returned: it resolved at once or it spawned phpcs
LintDone == lintRun.pc \in {"resolved", "spawned"}
Spawned == lintRun.pc = "spawned"

\* the arguments of the spawn that start with the piece `name`
ArgsNamed(name) == {i \in DOMAIN lintRun.args : lintRun.args[i][1] = name}
HasArg(name) == ArgsNamed(name) # {}

\* version v is at or above major.minor.patch
AtOrAbove(v, major, minor, patch) ==
    (v[1] * 10000 + v[2] * 100 + v[3]) >= (major * 10000 + minor * 100 + patch)

HasPath == lintIn.filePath # Undefined
PatternsGiven ==
    ~lintIn.settings.ignorePatterns.null
    /\ lintIn.settings.ignorePatterns.items # <<>>
AnyPatternMatches ==
    \E i \in DOMAIN lintIn.settings.ignorePatterns.items :
        minimatch(lintIn.filePath, lintIn.settings.ignorePatterns.items[i])

\* C11: the validation of a document whose text is empty ends with zero
\* diagnostics and has started no subprocess, neither phpcs on the text
\* nor the version probe.
C11_EmptyTextStartsNothing ==
    (LintDone /\ lintIn.fileText = "") =>
        /\ lintRun.diagnostics = <<>>
        /\ ~lintRun.spawned
        /\ lintRun.probes = 0

\* C12: on the command line of every spawn a version-gated flag is present
\* exactly if the tool version is at or above its gate: -q from 2.6.2,
\* --encoding=UTF-8 from 1.3.0, --ignore= from 3.0.0 (file path and
\* patterns given), --stdin-path= from 2.6.0 (file path given).
C12_FlagsFollowGates ==
    Spawned =>
        /\ HasArg("-q") <=> AtOrAbove(lintIn.version, 2, 6, 2)
        /\ HasArg("--encoding=UTF-8") <=> AtOrAbove(lintIn.version, 1, 3, 0)
        /\ (HasPath /\ PatternsGiven) =>
               (HasArg("--ignore=") <=> AtOrAbove(lintIn.version, 3, 0, 0))
        /\ HasPath =>
               (HasArg("--stdin-path=") <=> AtOrAbove(lintIn.version, 2, 6, 0))

\* phpcs 2.6.1, one patch below the gate of -q and above that of
\* --stdin-path, is spawned for a file
C12_JustBelowQuietGate ==
    /\ Spawned
    /\ HasPath
    /\ lintIn.version = <<2, 6, 1>>
    /\ ~HasArg("-q")
    /\ HasArg("--stdin-path=")

\* C13: for a document with a file path every spawn uses one way of giving
\* the file name: from 2.6.0 the flag --stdin-path=<path> and the bare text
\* on stdin; from 2.0.0 up to 2.6.0 no flag and the text preceded by the
\* line `phpcs_input_file: <path>`; below 2.0.0 no flag and the bare text.
C13_OneFileNameMethod ==
    (Spawned /\ HasPath) =>
        LET v == lintIn.version
            flag == \E i \in DOMAIN lintRun.args :
                        lintRun.args[i] = <<"--stdin-path=", lintIn.filePath>>
        IN  /\ AtOrAbove(v, 2, 6, 0) =>
                flag /\ lintRun.stdin = <<lintIn.fileText>>
            /\ (AtOrAbove(v, 2, 0, 0) /\ ~AtOrAbove(v, 2, 6, 0)) =>
                /\ ~HasArg("--stdin-path=")
                /\ lintRun.stdin = <<"phpcs_input_file: ", lintIn.filePath,
                                     EOL, lintIn.fileText>>
            /\ ~AtOrAbove(v, 2, 0, 0) =>
                ~HasArg("--stdin-path=") /\ lintRun.stdin = <<lintIn.fileText>>

\* phpcs 2.5.2 is spawned for a file: the name goes into the stream
C13_PreambleSent ==
    /\ Spawned
    /\ HasPath
    /\ lintIn.version = <<2, 5, 2>>
    /\ lintRun.stdin[1] = "phpcs_input_file: "

\* what --ignore= has to look like for the patterns given
ExpectedIgnoreArg ==
    LET items == lintIn.settings.ignorePatterns.items
    IN  IF Len(items) = 1 THEN <<"--ignore=", items[1]>>
        ELSE <<"--ignore=", items[1], ",", items[2]>>

\* how lint has to treat ignore patterns given for a file
IgnoreRule ==
    IF AtOrAbove(lintIn.version, 3, 0, 0)
    THEN /\ Spawned
         /\ Cardinality(ArgsNamed("--ignore=")) = 1
         /\ \A i \in ArgsNamed("--ignore=") : lintRun.args[i] = ExpectedIgnoreArg
    ELSE IF AnyPatternMatches
    THEN lintRun.pc = "resolved" /\ lintRun.diagnostics = <<>> /\ ~lintRun.spawned
    ELSE Spawned /\ ~HasArg("--ignore=")

\* C14 as stated: for every document with a file path and a non-empty
\* pattern list, below 3.0.0 a matching pattern resolves with nothing and
\* no spawn and no match spawns without --ignore; from 3.0.0 phpcs is
\* always spawned with one --ignore= of the patterns joined by commas.
C14_IgnoreRuleForEveryText ==
    (LintDone /\ HasPath /\ PatternsGiven) => IgnoreRule

\* C14 amended: the same for every document whose text is not empty.
C14_IgnoreRuleForNonEmptyText ==
    (LintDone /\ HasPath /\ PatternsGiven /\ lintIn.fileText # "") => IgnoreRule

\* phpcs 3.0.0 is spawned for a file that one of two patterns matches
C14_IgnoreLeftToPhpcs ==
    /\ Spawned
    /\ HasPath
    /\ lintIn.version = <<3, 0, 0>>
    /\ Len(lintIn.settings.ignorePatterns.items) = 2
    /\ AnyPatternMatches
    /\ HasArg("--ignore=")

\* C16: every spawn has exactly one --warning-severity flag; its value is
\* 0 when showWarnings is false and settings.warningSeverity otherwise.
C16_OneWarningSeverity ==
    Spawned =>
        /\ Cardinality(ArgsNamed("--warning-severity=")) = 1
        /\ \A i \in ArgsNamed("--warning-severity=") :
               lintRun.args[i] =
                   <<"--warning-severity=",
                     IF lintIn.settings.showWarnings
                     THEN lintIn.settings.warningSeverity ELSE "0">>

\* phpcs is spawned with warnings switched off and a severity of 5 set
C16_WarningsOff ==
    /\ Spawned
    /\ ~lintIn.settings.showWarnings
    /\ lintIn.settings.warningSeverity = "5"
    /\ HasArg("--warning-severity=")

---------------------------------------------------------------------------
(* Properties of lint's close handler *)

Settled == closeOut.pc = "settled"
\* the call that settles the lint promise: the first one made
FirstCall == closeOut.calls[1]

\* the message holds the name between double quotes
ContainsQuoted(message, name) ==
    \E i \in 1..(Len(message) - 2) :
        message[i] = DQ /\ message[i + 1] = name /\ message[i + 2] = DQ

\* C15: for a document without a file path, on every version and for every
\* ignorePatterns value, lint resolves without a spawn only for an empty
\* text, the command line has neither --ignore nor --stdin-path, stdin gets
\* exactly the document text, and the close handler reads the messages of
\* the report's STDIN key.
C15_NoPathBranch ==
    (LintDone /\ ~HasPath) =>
        /\ Spawned \/ lintIn.fileText = ""
        /\ Spawned =>
            /\ ~HasArg("--ignore=")
            /\ ~HasArg("--stdin-path=")
            /\ lintRun.stdin = <<lintIn.fileText>>
        /\ (Settled /\ closeOut.parsed /\ closeIn.stdout.kind = "json") =>
            /\ closeOut.key = "STDIN"
            /\ LET files == closeIn.stdout.data.files
               IN  ("STDIN" \in DOMAIN files.entries
                        /\ files.entries["STDIN"].hasMessages) =>
                       FirstCall =
                           Resolve(DiagnosticsOf(files.entries["STDIN"].messages))

\* phpcs 3.0.0 has linted an in-memory document, with a pattern set that
\* would match the file name, and its report has a message under STDIN
C15_InMemoryReportRead ==
    /\ ~HasPath
    /\ lintIn.version = <<3, 0, 0>>
    /\ PatternsGiven
    /\ Settled
    /\ closeOut.key = "STDIN"
    /\ FirstCall.kind = "resolve"
    /\ FirstCall.diagnostics # <<>>

\* C17: when stdout says that coding standard S is not installed, lint
\* rejects with a message that holds "S" in double quotes without parsing
\* stdout as a report, and the message shown to the user holds it too.
C17_MissingStandardNamed ==
    (Settled /\ closeIn.stdout.kind = "ERROR"
             /\ MatchesStandardNotInstalled(closeIn.stdout.text)) =>
        /\ FirstCall.kind = "reject"
        /\ Len(closeOut.calls) = 1
        /\ ContainsQuoted(FirstCall.error, closeIn.stdout.text[3])
        /\ ~closeOut.parsed
        /\ ContainsQuoted(closeOut.shown, closeIn.stdout.text[3])

\* phpcs has reported that the standard Foo is not installed
C17_StandardFooMissing ==
    /\ Settled
    /\ closeIn.stdout.text = StandardNotInstalledOutput("Foo")
    /\ FirstCall.kind = "reject"

\* C18: when phpcs has written something to stderr, lint rejects and does
\* not parse stdout as a report.
C18_StderrFailsLint ==
    (Settled /\ closeIn.stderr # "") =>
        FirstCall.kind = "reject" /\ ~closeOut.parsed

\* C19: a report whose totals show no error and no warning makes lint
\* resolve with the empty list, whatever its files section looks like.
C19_CleanTotalsResolveEmpty ==
    (Settled /\ closeIn.stdout.kind = "json"
             /\ closeIn.stdout.data.totals.errors = 0
             /\ closeIn.stdout.data.totals.warnings = 0) =>
        FirstCall = Resolve(<<>>)

\* the key of the report under which the document is expected
DocumentKey ==
    IF HasPath /\ AtOrAbove(lintIn.version, 2, 0, 0)
    THEN closeIn.realPath
    ELSE "STDIN"

\* C30: when the parsed report has a files section without an entry under
\* the document's key, the lint promise ends up resolved with the empty
\* list: resolve is called first, and the reject that follows the
\* exception of the close handler changes nothing.
C30_MissingKeyResolvesEmpty ==
    (Settled /\ closeIn.stdout.kind = "json"
             /\ closeIn.stdout.data.files.present
             /\ DocumentKey \notin DOMAIN closeIn.stdout.data.files.entries) =>
        /\ closeOut.parsed
        /\ FirstCall = Resolve(<<>>)
        /\ closeOut.calls = <<Resolve(<<>>), Reject(TypeError)>>

\* the report of a file document linted by phpcs 2.0.0 lists another file
C30_ReportOfAnotherFile ==
    /\ Settled
    /\ HasPath /\ lintIn.version = <<2, 0, 0>>
    /\ closeIn.stdout.kind = "json"
    /\ closeIn.stdout.data.files.present
    /\ closeIn.realPath = "/w/a.php"
    /\ DOMAIN closeIn.stdout.data.files.entries = {"/r/a.php"}
    /\ FirstCall.kind = "resolve"
    /\ Len(closeOut.calls) = 2

---------------------------------------------------------------------------
(* Properties of makeDiagnostic *)

Made == diagOut.pc = "made"
LineString == diagIn.lines[diagIn.entry.line]
Anchor == diagIn.entry.column - 1

\* the position one past the last character of the whitespace run that
\* begins at position a
WhitespaceRunEnd(s, a) ==
    CHOOSE j \in (a + 1)..Len(s) :
        /\ \A k \in a..(j - 1) : isWhitespace(charCodeAt(s, k))
        /\ j = Len(s) \/ ~isWhitespace(charCodeAt(s, j))

\* C20: when the character at the anchor is whitespace, the range starts at
\* the anchor and its exclusive end is one past the last character of the
\* whitespace run that begins there.
C20_WholeWhitespaceRun ==
    (Made /\ isWhitespace(charCodeAt(LineString, Anchor))) =>
        /\ diagOut.range.start.character = Anchor
        /\ diagOut.range.end.character = WhitespaceRunEnd(LineString, Anchor)

isWordStartChar(charCode) == isAlphaNumeric(charCode) \/ isSymbol(charCode)
isWordChar(charCode) == isAlphaNumeric(charCode) \/ charCode = Underscore

\* the first position after a whose character is neither alphanumeric nor
\* underscore, or the line length
WordEndAfter(s, a) ==
    CHOOSE j \in (a + 1)..Len(s) :
        /\ \A k \in (a + 1)..(j - 1) : isWordChar(charCodeAt(s, k))
        /\ j = Len(s) \/ ~isWordChar(charCodeAt(s, j))

\* the leftmost position from which every character up to a is
\* alphanumeric, a symbol or underscore
WordStartBefore(s, a) ==
    CHOOSE j \in 0..a :
        /\ \A k \in j..a :
              isWordStartChar(charCodeAt(s, k)) \/ charCodeAt(s, k) = Underscore
        /\ \A i \in 0..(j - 1) :
              \E k \in i..a :
                  ~(isWordStartChar(charCodeAt(s, k))
                        \/ charCodeAt(s, k) = Underscore)

\* C21: when the character at the anchor is alphanumeric, '$' or '@', the
\* exclusive end is the first position after the anchor whose character is
\* neither alphanumeric nor underscore (or the line length), the start is
\* the leftmost position from which every character up to the anchor is
\* alphanumeric, '$', '@' or underscore, and both lie on line entry.line - 1.
C21_WholeWord ==
    (Made /\ isWordStartChar(charCodeAt(LineString, Anchor))) =>
        /\ diagOut.range.end.character = WordEndAfter(LineString, Anchor)
        /\ diagOut.range.start.character = WordStartBefore(LineString, Anchor)
        /\ diagOut.range.start.line = diagIn.entry.line - 1
        /\ diagOut.range.end.line = diagIn.entry.line - 1

\* the anchor lies inside the word $a_a of line 2: the range is the word
C21_AnchorInsideWord ==
    /\ Made
    /\ LineString = <<36, 97, 95, 97>>
    /\ diagIn.entry.line = 2
    /\ diagIn.entry.column = 2
    /\ diagOut.range.start = [line |-> 1, character |-> 0]
    /\ diagOut.range.end = [line |-> 1, character |-> 4]


\* C37: when the column lies on the line, the range stays on that line and
\* holds the reported column: 0 <= start <= column - 1 < end <= length
C37_RangeHoldsColumn ==
    (Made /\ diagIn.entry.column <= Len(LineString)) =>
        /\ diagOut.range.start.line = diagIn.entry.line - 1
        /\ diagOut.range.end.line = diagIn.entry.line - 1
        /\ 0 <= diagOut.range.start.character
        /\ diagOut.range.start.character <= diagIn.entry.column - 1
        /\ diagIn.entry.column - 1 < diagOut.range.end.character
        /\ diagOut.range.end.character <= Len(LineString)

\* the column is inside a word that begins before it and ends with the line
C37_WordUpToLineEnd ==
    /\ Made
    /\ diagIn.entry.column <= Len(LineString)
    /\ isWordStartChar(charCodeAt(LineString, Anchor))
    /\ diagOut.range.start.character < Anchor
    /\ Anchor + 1 < diagOut.range.end.character
    /\ diagOut.range.end.character = Len(LineString)

---------------------------------------------------------------------------
(* Properties of the search for the executable *)

PathSettled == resOut.pc # "idle"
PathFailed == resOut.pc = "failed"
\* the two revisions with an executablePath setting and separate resolvers
HasResolvers == resIn.revision \in {"linter", "client"}
ComposerJsonExists == resIn.composerJson # "absent"
\* the project depends on phpcs: both files exist and the lock lists it
PhpcsIsDependency ==
    resIn.hasWorkspaceRoot /\ ComposerJsonExists /\ resIn.composerLock = "with"
PhpcsOnPath == \E i \in DOMAIN resIn.PATH : resIn.PATH[i]
ExpectedVendorPath ==
    IF resIn.composerJson = "bin-dir"
    THEN [kind |-> "bin-dir/phpcs", dir |-> 0]
    ELSE [kind |-> "vendor/bin/phpcs", dir |-> 0]
SaysUnableToLocate(error) ==
    \E i \in DOMAIN error.text : error.text[i] = "Unable to locate phpcs."
Consulted(name) == \E i \in DOMAIN resOut.consulted : resOut.consulted[i] = name

\* C22: with an absolute executablePath the resolved executable is that
\* path, no resolver is consulted, and resolution does not fail, whatever
\* the state of composer.json and composer.lock.
C22_AbsolutePathWins ==
    (PathSettled /\ resIn.executablePath = AbsolutePath) =>
        /\ ~PathFailed
        /\ resOut.path = AbsolutePath
        /\ resOut.consulted = <<>>

\* an absolute path is taken in a workspace whose composer.json has no
\* composer.lock
C22_AbsoluteInBrokenProject ==
    /\ resOut.pc = "resolved"
    /\ resIn.executablePath = AbsolutePath
    /\ resIn.hasWorkspaceRoot
    /\ ComposerJsonExists /\ resIn.composerLock = "absent"
    /\ PhpcsOnPath

\* C23: with no executablePath, a composer dependency whose vendor binary
\* exists is the result even if phpcs is on PATH; a PATH directory is the
\* result, and the PATH search is made, only when the composer resolver
\* gave no result; and when neither gives a path the outcome is an
\* 'Unable to locate phpcs' error.
C23_ComposerThenGlobal ==
    (PathSettled /\ HasResolvers /\ resIn.executablePath = NoPath) =>
        /\ (PhpcsIsDependency /\ resIn.vendorExists) =>
              /\ ~PathFailed
              /\ resOut.path = ExpectedVendorPath
              /\ ~Consulted("global")
        /\ (resOut.path.kind = "PATH" \/ Consulted("global")) =>
              /\ ~PhpcsIsDependency
              /\ resIn.revision = "linter" =>
                    ~(resIn.hasWorkspaceRoot /\ ComposerJsonExists
                        /\ resIn.composerLock = "absent")
        /\ (Consulted("global") /\ ~PhpcsOnPath) =>
              /\ resIn.revision = "client" =>
                    PathFailed /\ SaysUnableToLocate(resOut.error)
              /\ resIn.revision = "linter" =>
                    /\ resOut.path = NoPath
                    /\ resOut.pc = "probed" =>
                          /\ resOut.calls[1].kind = "reject"
                          /\ SaysUnableToLocate(resOut.calls[1].error)

\* the vendor binary is chosen although PATH holds phpcs as well
C23_VendorBeforePath ==
    /\ PathSettled /\ HasResolvers
    /\ resIn.executablePath = NoPath
    /\ PhpcsIsDependency /\ resIn.vendorExists
    /\ PhpcsOnPath
    /\ resOut.path = ExpectedVendorPath

\* C24: when composer.json and composer.lock exist, the lock lists phpcs
\* and the vendor binary is missing, resolution fails with an error that
\* names the vendor path, and the PATH search is not made.
C24_MissingVendorBinaryFails ==
    (PathSettled /\ HasResolvers /\ resIn.executablePath = NoPath
        /\ PhpcsIsDependency /\ ~resIn.vendorExists) =>
        /\ PathFailed
        /\ resOut.error.path = ExpectedVendorPath
        /\ ~Consulted("global")
        /\ resOut.path = NoPath

\* the vendor binary is missing while PATH holds phpcs
C24_MissingVendorWithPhpcsOnPath ==
    /\ PathFailed /\ HasResolvers
    /\ resIn.revision = "client"
    /\ PhpcsIsDependency /\ ~resIn.vendorExists
    /\ PhpcsOnPath

\* C25: when composer.json exists and composer.lock does not, resolution
\* fails and the PATH search is not made.
C25_UninitializedComposerFails ==
    (PathSettled /\ HasResolvers /\ resIn.executablePath = NoPath
        /\ resIn.hasWorkspaceRoot /\ ComposerJsonExists
        /\ resIn.composerLock = "absent") =>
        PathFailed /\ ~Consulted("global")

\* C26: a relative executablePath is joined with the workspace root when
\* there is one, and makes resolution fail when there is none.
C26_RelativePathResolvedOrRefused ==
    (PathSettled /\ resIn.revision = "client"
        /\ resIn.executablePath = RelativePath) =>
        IF resIn.hasWorkspaceRoot
        THEN ~PathFailed /\ resOut.path = JoinedPath
        ELSE PathFailed

\* C27: a path found by the PATH search lies in the first directory of
\* PATH that holds phpcs.
C27_FirstPathDirectoryWins ==
    (PathSettled /\ resOut.path.kind = "PATH") =>
        \A i \in 1..(resOut.path.dir - 1) : ~resIn.PATH[i]

\* C28: when the --version command ends with an error or prints no
\* version, create rejects its promise and no exception leaves the
\* callback.
C28_CreateRejectsBadProbe ==
    (resOut.pc = "probed" /\ resIn.revision = "linter"
        /\ (resOut.probe.error \/ ~resOut.probe.hasVersion)) =>
        /\ resOut.calls # <<>>
        /\ resOut.calls[1].kind = "reject"
        /\ ~resOut.uncaught

---------------------------------------------------------------------------
(* Properties of a successful validation *)

\* what the step does in which the lint of slot t resolves with d
EffectsOfSuccess(t, d) == lintResolved(St, t, d).out

\* C29: when a lint resolves, validateSingle first sends validation-ended
\* for the URI, next publishes the diagnostics the lint resolved with, and
\* publishes nothing else for that URI.
C29_EndedThenPublishedOnce ==
    \A t \in Slots :
        tasks[t].pc = "lint" =>
            \A d \in LintResults :
                LET o == EffectsOfSuccess(t, d)
                    u == tasks[t].uri
                IN  /\ Len(o) >= 2
                    /\ o[1] = End(u)
                    /\ o[2] = Diag(u, d)
                    /\ Cardinality({i \in DOMAIN o :
                                      o[i].k = "diag" /\ o[i].u = u}) = 1

\* a lint has just resolved with a diagnostic while another document was
\* waiting for its turn: ended, then published, then the next document
C29_SuccessThenNextDocument ==
    \E u \in URIS :
        /\ Len(out) > 2
        /\ out[1] = End(u)
        /\ out[2] = Diag(u, <<"E1">>)

---------------------------------------------------------------------------
(* Properties of the validating map and of closed documents *)

\* the calls of validateSingle for u that have not returned or thrown
CallsOf(u) == {t \in Slots : tasks[t].uri = u /\ tasks[t].pc # "idle"}

\* C31: in the try/finally revision a URI is in the validating map only
\* while a call of validateSingle for it is under way: every way of
\* leaving validateSingle removes the URI again.
C31_EveryExitUnmarks ==
    rev = "tryfinally" => \A u \in validating : CallsOf(u) # {}

\* C32: no step publishes a non-empty diagnostics list for a document that
\* is closed: after the empty list of the close handler nothing else is
\* published for the URI.
C32_ClosedStaysCleared ==
    \A u \in URIS :
        u \notin {open[i] : i \in DOMAIN open} =>
            \A i \in DOMAIN out :
                (out[i].k = "diag" /\ out[i].u = u) => out[i].d = NoDiagnostics
---------------------------------------------------------------------------
(* Properties of a document edited while it is validated *)

Published == edit.pc = "open" /\ edit.stdin # NoText

\* C33: the text against which makeDiagnostic maps the messages of a run
\* is the text that was written to the stdin of that run
C33_MappedTextIsStdinText ==
    Published => edit.mapped = edit.stdin

\* C34: once no validation of the document is in flight, the diagnostics
\* published last were computed from the document's current text
C34_ChangedTextIsValidated ==
    (Published /\ edit.runs = <<>>) => edit.stdin = getText(edit)

---------------------------------------------------------------------------
(* Properties of the queueing revision *)

\* C35: a request queued while the URI is validated is never lost: as long
\* as it waits, a subprocess is running whose close will serve it
C35_QueuedRequestIsServed ==
    (queueing.pc = "listening" /\ queueing.ready) =>
        \A uri \in URIS :
            queueing.needsValidating[uri] # NoDocument =>
                queueing.child[uri] # NoDocument

---------------------------------------------------------------------------
(* Properties of the settings cache *)

ConfigRequests(o, u) ==
    Cardinality({i \in DOMAIN o : o[i].k = "config" /\ o[i].u = u})

IsOpen(o, u) == \E i \in DOMAIN o : o[i] = u

\* C36: with the configuration capability, a step asks the client for the
\* settings of a URI at most once; it does not ask while the URI has a
\* cached promise, pending or settled either way, unless the step handles
\* a settings-changed or a close of that URI; and after a settings-changed
\* step every cache entry is one the step itself requested
C36_OneRequestPerCachedPromise ==
    [][\A u \in URIS :
          LET n == ConfigRequests(out', u)
              settingsChanged ==
                  \E i \in DOMAIN out' : out'[i].k = "settings-changed"
              closed == IsOpen(open, u) /\ ~IsOpen(open', u)
          IN  hasConfigurationCapability =>
                /\ n <= 1
                /\ (documentSettings[u] # 0 /\ ~settingsChanged /\ ~closed) =>
                      (n = 0 /\ documentSettings'[u] # 0)
                /\ (settingsChanged /\ documentSettings'[u] # 0) => n = 1
                /\ (documentSettings[u] = 0 /\ documentSettings'[u] # 0) =>
                      n = 1]_vars

\* two calls for one URI wait for the one cached promise
C36_TwoCallsOnePromise ==
    /\ hasConfigurationCapability
    /\ \E u \in URIS :
          /\ documentSettings[u] # 0
          /\ \E t1, t2 \in Slots :
                /\ t1 # t2
                /\ tasks[t1].pc = "settings" /\ tasks[t2].pc = "settings"
                /\ tasks[t1].uri = u /\ tasks[t2].uri = u
                /\ tasks[t1].cfg = documentSettings[u]
                /\ tasks[t2].cfg = documentSettings[u]

---------------------------------------------------------------------------
(* Properties of the status bar *)

\* C38: whenever processing is 0, no interval of the status timer is still
\* set and the status bar item is hidden
C38_IdleMeansTimerStopped ==
    (status.pc = "created" /\ status.processing = 0) =>
        (status.intervals = {} /\ ~status.visible)

---------------------------------------------------------------------------
(* Properties of FullTextDocument *)

\* C39: for every text and every offset from 0 to its length,
\* offsetAt(positionAt(offset)) is the offset
C39_OffsetRoundTrip ==
    fullText.pc = "done" => fullText.result = fullText.offset

\* the offset lies between the CR and the LF of a line break that is not
\* the first line of the text
C39_BetweenCrAndLf ==
    /\ fullText.pc = "done"
    /\ fullText.offset >= 2
    /\ fullText.offset < Len(fullText.text)
    /\ charAt(fullText.text, fullText.offset - 1) = "CR"
    /\ charAt(fullText.text, fullText.offset) = "LF"
    /\ fullText.position.line > 0


=============================================================================
